---- MODULE Spec2Model ----
(***************************************************************************)
(* Entrepreneurial well-being simulator: the seeded random streams, the     *)
(* period stepper runSimulation, the campaign driver                        *)
(* runMultipleSimulations and the dashboard component of                    *)
(* src/src/EntrepreneurialWellbeingSimulator.jsx.                           *)
(*                                                                          *)
(* Numbers.  Every JavaScript number of the engine is an IEEE 754 double    *)
(* and is modelled bit for bit: sign, exponent and a significand of 53      *)
(* bits.  +, -, *, / and Math.sqrt round their exact result to the nearest  *)
(* double; Math.log, Math.exp and Math.cos follow fdlibm, the library the   *)
(* V8 engine evaluates them with, operation by operation.  The seed of a    *)
(* stream, the loop counters and the indices are integers.                  *)
(***************************************************************************)
EXTENDS Integers, Sequences, FiniteSets, TLC

RECURSIVE Call(_, _)

\* ------------------------------------------------------------------------
\* JavaScript numbers: IEEE 754 doubles
\*
\* A number is a triple <<s, e, m>>: the sign s (1 for negative), the
\* exponent e and the significand m, a natural number below 2^53 held as
\* four limbs of 14 bits, least significant first.  The value is
\* (-1)^s * m * 2^(e - 52).  A normal number has 2^52 <= m and
\* -1022 <= e <= 1023; a subnormal number and zero have e = -1022 and
\* m < 2^52; an infinity has e = 1024 and m = 0, and NaN has e = 1024 and
\* m = 1.  Every operation rounds its exact result to the nearest double,
\* ties to even.
\*
\* The arithmetic is written as functions, applied by operators of the same
\* name without the suffix Fn: a function is applied to the value of its
\* argument, so an argument is evaluated once however often the body reads
\* it.  All integers stay inside the 32-bit range.
\* ------------------------------------------------------------------------

\* The radix of a limb, and the sets the functions are defined on.
Radix == 16384
Limbs == Seq(Int)
Double == Int \X Int \X Limbs

\* The exponent of the infinities and NaN, and of zero and the subnormals.
SpecialExp == 1024
MinExp == -1022

Pow2(n) == 2 ^ n

Abs(x) == IF x < 0 THEN -x ELSE x
Sgn(x) == IF x < 0 THEN -1 ELSE IF x > 0 THEN 1 ELSE 0

\* The one element of a singleton set: Only({e(x) : x \in {v}}) is e(v).
Only(S) == CHOOSE v \in S : TRUE

NoLimbs == <<0, 0, 0, 0>>
NaN == <<0, SpecialExp, <<1, 0, 0, 0>>>>
PosInf == <<0, SpecialExp, NoLimbs>>
NegInf == <<1, SpecialExp, NoLimbs>>
Zero == <<0, MinExp, NoLimbs>>
NegZero == <<1, MinExp, NoLimbs>>

\* The infinity and the zero of sign s.
Inf(s) == <<s, SpecialExp, NoLimbs>>
SignedZero(s) == <<s, MinExp, NoLimbs>>

IsNaN(x) == x = NaN
IsInf(x) == x = PosInf \/ x = NegInf
IsFinite(x) == x[2] # SpecialExp
IsZero(x) == x = Zero \/ x = NegZero
IsNegative(x) == x[1] = 1

\* ------------------------------------------------------------------------
\* Natural numbers as sequences of limbs
\* ------------------------------------------------------------------------

\* Limb i of n, 0 beyond its ends.
LimbAt(n, i) == IF i >= 1 /\ i <= Len(n) THEN n[i] ELSE 0

\* Number of significant bits of a natural below 2^28 (0 for 0).
BitLen[n \in Int] ==
    IF n < 128
    THEN (IF n < 8 THEN (IF n < 2 THEN n ELSE IF n < 4 THEN 2 ELSE 3)
          ELSE IF n < 32 THEN (IF n < 16 THEN 4 ELSE 5)
          ELSE IF n < 64 THEN 6 ELSE 7)
    ELSE IF n < 2048
    THEN (IF n < 512 THEN (IF n < 256 THEN 8 ELSE 9)
          ELSE IF n < 1024 THEN 10 ELSE 11)
    ELSE IF n < 8192 THEN (IF n < 4096 THEN 12 ELSE 13)
    ELSE IF n < 16384 THEN 14
    ELSE 14 + BitLen[n \div 16384]

\* Index of the most significant non-zero limb at or below i (0 when none).
TopLimb[n \in Limbs, i \in Int] ==
    IF i = 0 THEN 0 ELSE IF n[i] # 0 THEN i ELSE TopLimb[n, i - 1]

\* Number of significant bits of n, given its top limb t.
BitsFrom[n \in Limbs, t \in Int] ==
    IF t = 0 THEN 0 ELSE 14 * (t - 1) + BitLen[n[t]]

\* Number of significant bits of n.
NatBits[n \in Limbs] == BitsFrom[n, TopLimb[n, Len(n)]]

\* The 14 bits that start b bits into the limb lo and end in the limb hi
\* above it, d being 2^b and u being 2^(14 - b).
Spliced(lo, hi, d, u) == (lo \div d) + (hi % d) * u

\* The 14 bits of n from bit p upwards: floor(n / 2^p) mod 2^14, for any
\* integer p (bits below bit 0 are 0).
BitsAt[n \in Limbs, p \in Int] ==
    Spliced(LimbAt(n, (p \div 14) + 1), LimbAt(n, (p \div 14) + 2),
            Pow2(p % 14), Pow2(14 - (p % 14)))

\* The four limbs of n from b bits into limb w + 1 upwards.
WindowAt[n \in Limbs, w \in Int, d \in Int, u \in Int] ==
    <<Spliced(LimbAt(n, w + 1), LimbAt(n, w + 2), d, u),
      Spliced(LimbAt(n, w + 2), LimbAt(n, w + 3), d, u),
      Spliced(LimbAt(n, w + 3), LimbAt(n, w + 4), d, u),
      Spliced(LimbAt(n, w + 4), LimbAt(n, w + 5), d, u)>>

\* floor(n / 2^p) mod 2^56 as four limbs, for any integer p.
Window[n \in Limbs, p \in Int] ==
    WindowAt[n, p \div 14, Pow2(p % 14), Pow2(14 - (p % 14))]

\* floor(n / 2^p) mod 2^(14 k) as k limbs, for any integer p.
Shifted[n \in Limbs, p \in Int, k \in Int] ==
    [i \in 1..k |-> BitsAt[n, p + 14 * (i - 1)]]

\* Whether the bits of n below bit p are all 0.
LowZero[n \in Limbs, p \in Int] ==
    \/ p <= 0
    \/ /\ \A i \in 1..(p \div 14) : LimbAt(n, i) = 0
       /\ LimbAt(n, (p \div 14) + 1) % Pow2(p % 14) = 0

\* Carry propagation from column i on: from column sums c (negative ones
\* allowed) to limbs in 0..Radix-1, followed by the carry out of the top
\* column (negative when the number is).
Carried[c \in Limbs, i \in Int, k \in Int, out \in Limbs] ==
    IF i > Len(c) THEN Append(out, k)
    ELSE Carried[c, i + 1, (c[i] + k) \div Radix, Append(out, (c[i] + k) % Radix)]

\* a + b and a - b (for a >= b) on four limbs; the carry out is limb 5.
Add4[a \in Limbs, b \in Limbs] ==
    Carried[<<a[1] + b[1], a[2] + b[2], a[3] + b[3], a[4] + b[4]>>, 1, 0, <<>>]
Sub4[a \in Limbs, b \in Limbs] ==
    Carried[<<a[1] - b[1], a[2] - b[2], a[3] - b[3], a[4] - b[4]>>, 1, 0, <<>>]

\* a + b and a - b (for a >= b) on k limbs; the carry out is limb k + 1.
NatAdd[a \in Limbs, b \in Limbs, k \in Int] ==
    Carried[[i \in 1..k |-> LimbAt(a, i) + LimbAt(b, i)], 1, 0, <<>>]
NatSub[a \in Limbs, b \in Limbs, k \in Int] ==
    Carried[[i \in 1..k |-> LimbAt(a, i) - LimbAt(b, i)], 1, 0, <<>>]

\* The exact product of two naturals of four limbs, on eight limbs.
NatMul[a \in Limbs, b \in Limbs] ==
    SubSeq(Carried[<<a[1] * b[1],
                     a[1] * b[2] + a[2] * b[1],
                     a[1] * b[3] + a[2] * b[2] + a[3] * b[1],
                     a[1] * b[4] + a[2] * b[3] + a[3] * b[2] + a[4] * b[1],
                     a[2] * b[4] + a[3] * b[3] + a[4] * b[2],
                     a[3] * b[4] + a[4] * b[3],
                     a[4] * b[4]>>, 1, 0, <<>>], 1, 8)

\* The product of a natural of k limbs and a limb q, on k + 1 limbs.
NatScale[a \in Limbs, q \in Int, k \in Int] ==
    Carried[[i \in 1..k |-> a[i] * q], 1, 0, <<>>]

\* Comparison of two naturals from limb i downwards: -1, 0 or 1.
NatCmp[a \in Limbs, b \in Limbs, i \in Int] ==
    IF i = 0 THEN 0
    ELSE IF LimbAt(a, i) < LimbAt(b, i) THEN -1
    ELSE IF LimbAt(a, i) > LimbAt(b, i) THEN 1
    ELSE NatCmp[a, b, i - 1]

\* The limbs of an integer 0 <= n < 2^31.
NatOf[n \in Int] == <<n % Radix, (n \div Radix) % Radix, n \div (Radix * Radix), 0>>

\* The integer a natural below 2^31 stands for.
IntOf[a \in Limbs] == a[1] + Radix * a[2] + Radix * Radix * a[3]

\* ------------------------------------------------------------------------
\* Rounding
\* ------------------------------------------------------------------------

\* The double of sign s, exponent e and significand m after rounding: the
\* significand 2^53 that rounding up can give is 2^52 one exponent higher,
\* and an exponent above 1023 is an infinity.
Finished[s \in Int, e \in Int, m \in Limbs] ==
    IF m[4] >= 2048
    THEN (IF e + 1 > 1023 THEN Inf(s) ELSE <<s, e + 1, <<0, 0, 0, 1024>>>>)
    ELSE IF e > 1023 THEN Inf(s)
    ELSE <<s, e, m>>

\* n with its r low bits dropped, rounded to nearest, ties to even; sticky
\* tells that the exact number has non-zero bits below those of n.
Rounded[s \in Int, n \in Limbs, e \in Int, r \in Int, sticky \in BOOLEAN, m \in Limbs] ==
    IF /\ r >= 1
       /\ (BitsAt[n, r - 1] % 2) = 1
       /\ (sticky \/ ~LowZero[n, r - 1] \/ (m[1] % 2) = 1)
    THEN Finished[s, e, SubSeq(Carried[<<m[1] + 1, m[2], m[3], m[4]>>, 1, 0, <<>>], 1, 4)]
    ELSE Finished[s, e, m]

\* The double nearest to (-1)^s * n * 2^x, n having len significant bits
\* and leading exponent lead = x + len - 1; the exponent of the result is
\* max(lead, -1022).
PackAt[s \in Int, n \in Limbs, x \in Int, sticky \in BOOLEAN, e \in Int] ==
    Rounded[s, n, e, e - 52 - x, sticky, Window[n, e - 52 - x]]

PackBits[s \in Int, n \in Limbs, x \in Int, sticky \in BOOLEAN, len \in Int] ==
    IF len = 0 THEN SignedZero(s)
    ELSE IF x + len - 1 < MinExp THEN PackAt[s, n, x, sticky, MinExp]
    ELSE PackAt[s, n, x, sticky, x + len - 1]

\* The double nearest to (-1)^s * n * 2^x, for a natural n.
Pack[s \in Int, n \in Limbs, x \in Int, sticky \in BOOLEAN] ==
    PackBits[s, n, x, sticky, NatBits[n]]

\* A finite non-zero double with its significand shifted up to 53 bits (the
\* exponent of a subnormal number may then lie below -1022).
NormalizedBy[x \in Double, len \in Int] ==
    IF len = 53 \/ len = 0 THEN x
    ELSE <<x[1], x[2] - (53 - len), Window[x[3], len - 53]>>
Normalized[x \in Double] == NormalizedBy[x, NatBits[x[3]]]

\* The double of the integer n, |n| < 2^31.
FromIntFn[n \in Int] == Call("Pack", <<IF n < 0 THEN 1 ELSE 0, NatOf[Abs(n)], 0, FALSE>>)
FromInt(n) == Call("FromIntFn", n)

\* ------------------------------------------------------------------------
\* Comparison
\* ------------------------------------------------------------------------

\* Comparison of the magnitudes of two finite doubles: -1, 0 or 1.
MagCmp[x \in Double, y \in Double] ==
    IF x[2] < y[2] THEN -1
    ELSE IF x[2] > y[2] THEN 1
    ELSE NatCmp[x[3], y[3], 4]

\* Comparison of two doubles that are not NaN: -1, 0 or 1.  The two zeros
\* are equal, and an infinity has the largest exponent.
CmpFn[x \in Double, y \in Double] ==
    IF IsZero(x) /\ IsZero(y) THEN 0
    ELSE IF x[1] # y[1] THEN (IF x[1] = 1 THEN -1 ELSE 1)
    ELSE IF x[1] = 0 THEN MagCmp[x, y]
    ELSE -MagCmp[x, y]

\* x < y, x <= y and x === y: false when either side is NaN.
Less(x, y) == ~IsNaN(x) /\ ~IsNaN(y) /\ CmpFn[x, y] < 0
LessEq(x, y) == ~IsNaN(x) /\ ~IsNaN(y) /\ CmpFn[x, y] <= 0
StrictEq(x, y) == ~IsNaN(x) /\ ~IsNaN(y) /\ CmpFn[x, y] = 0

\* Math.max and Math.min: NaN when either argument is NaN, and -0 is
\* below +0.
MathMaxFn[x \in Double, y \in Double] ==
    IF IsNaN(x) \/ IsNaN(y) THEN NaN
    ELSE IF IsZero(x) /\ IsZero(y) THEN (IF x[1] = 0 THEN x ELSE y)
    ELSE IF CmpFn[x, y] >= 0 THEN x ELSE y
MathMax(x, y) == MathMaxFn[x, y]

MathMinFn[x \in Double, y \in Double] ==
    IF IsNaN(x) \/ IsNaN(y) THEN NaN
    ELSE IF IsZero(x) /\ IsZero(y) THEN (IF x[1] = 1 THEN x ELSE y)
    ELSE IF CmpFn[x, y] <= 0 THEN x ELSE y
MathMin(x, y) == MathMinFn[x, y]

\* ------------------------------------------------------------------------
\* Addition, multiplication, division, square root
\* ------------------------------------------------------------------------

\* Unary minus.
NegFn[x \in Double] == IF IsNaN(x) THEN NaN ELSE <<1 - x[1], x[2], x[3]>>
Neg(x) == NegFn[x]

\* The significand of the smaller term of a sum, d being the difference of
\* the exponents: m * 8 / 2^d on four limbs, the lowest bit set when bits
\* of m are lost.  The larger term is m * 8, so three bits lie below its
\* last bit; the lowest bit of the sum then tells that the exact sum has
\* bits below it, and it lies below the rounding bit whenever it does.
Jammed[m \in Limbs, p \in Int, w \in Limbs] ==
    IF LowZero[m, p] THEN w ELSE <<w[1] + 1 - (w[1] % 2), w[2], w[3], w[4]>>
Aligned[m \in Limbs, d \in Int] == Jammed[m, d - 3, Window[m, d - 3]]

\* |x| + |y| with sign s, for finite |x| >= |y| and my the aligned
\* significand of y.
SumMag[s \in Int, x \in Double, my \in Limbs] ==
    Call("Pack", <<s, Add4[Window[x[3], -3], my], x[2] - 55, FALSE>>)

\* |x| - |y| with sign s, for finite |x| > |y|.
DiffMag[s \in Int, x \in Double, my \in Limbs] ==
    Call("Pack", <<s, Sub4[Window[x[3], -3], my], x[2] - 55, FALSE>>)

\* The sum of two finite doubles, |x| >= |y|.  Equal magnitudes of opposite
\* sign give +0.
AddOrdered[x \in Double, y \in Double, c \in Int] ==
    IF x[1] = y[1]
    THEN SumMag[x[1], x, Aligned[y[3], x[2] - y[2]]]
    ELSE IF c = 0 THEN Zero
    ELSE DiffMag[x[1], x, Aligned[y[3], x[2] - y[2]]]

\* The sum of two finite doubles, c comparing their magnitudes.
AddFinite[x \in Double, y \in Double, c \in Int] ==
    IF c >= 0 THEN AddOrdered[x, y, c] ELSE AddOrdered[y, x, -c]

\* x + y.
AddFn[x \in Double, y \in Double] ==
    IF IsNaN(x) \/ IsNaN(y) THEN NaN
    ELSE IF IsInf(x) THEN (IF IsInf(y) /\ y # x THEN NaN ELSE x)
    ELSE IF IsInf(y) THEN y
    ELSE AddFinite[x, y, MagCmp[x, y]]
Add(x, y) == Call("AddFn", <<x, y>>)

\* x - y.
Sub(x, y) == Call("AddFn", <<x, NegFn[y]>>)

\* x * y: the exact product of the significands, rounded once.
MulFn[x \in Double, y \in Double] ==
    IF IsNaN(x) \/ IsNaN(y) THEN NaN
    ELSE IF IsInf(x) \/ IsInf(y)
    THEN (IF IsZero(x) \/ IsZero(y) THEN NaN ELSE Inf((x[1] + y[1]) % 2))
    ELSE Call("Pack", <<(x[1] + y[1]) % 2, NatMul[x[3], y[3]], x[2] + y[2] - 104, FALSE>>)
Mul(x, y) == Call("MulFn", <<x, y>>)

\* Long division by a divisor v of four limbs whose top limb is at least
\* Radix / 2.  A step takes the remainder so far, rem < v, and gives the
\* next limb of the quotient with the next remainder, <<q, rem * Radix - q * v>>.

\* cur - q * v on five limbs, followed by the carry out (negative when q is
\* too large).
Reduced[cur \in Limbs, v \in Limbs, q \in Int] ==
    Carried[[i \in 1..5 |-> cur[i] - q * LimbAt(v, i)], 1, 0, <<>>]

\* t + v on five limbs, the carry out added to that of t.
Restored[t \in Limbs, v \in Limbs, c \in Limbs] == <<c[1], c[2], c[3], c[4], c[5], c[6] + t[6]>>

\* The estimate q lowered until the remainder t = cur - q * v is not
\* negative.
Settled[t \in Limbs, v \in Limbs, q \in Int] ==
    IF t[6] >= 0 THEN <<q, SubSeq(t, 1, 4)>>
    ELSE Settled[Restored[t, v, NatAdd[t, v, 5]], v, q - 1]

\* The estimate of the quotient limb from the two top limbs of cur and the
\* top limb of v: never below the limb, and at most 2 above it.
Estimate[cur \in Limbs, v \in Limbs] ==
    IF (cur[5] * Radix + cur[4]) \div v[4] >= Radix THEN Radix - 1
    ELSE (cur[5] * Radix + cur[4]) \div v[4]

DivStepAt[cur \in Limbs, v \in Limbs, q \in Int] == Settled[Reduced[cur, v, q], v, q]
DivStep[rem \in Limbs, v \in Limbs] ==
    DivStepAt[<<0, rem[1], rem[2], rem[3], rem[4]>>, v, Estimate[<<0, rem[1], rem[2], rem[3], rem[4]>>, v]]

\* The first step: u < 2 v, so the limb is 0 or 1.
DivFirst[u \in Limbs, v \in Limbs] ==
    IF NatCmp[u, v, 4] >= 0 THEN <<1, SubSeq(Sub4[u, v], 1, 4)>> ELSE <<0, u>>

\* floor(u * Radix^4 / v) on five limbs, least significant first, followed
\* by the remainder: q collects the steps made so far, last step first.
LongDiv[v \in Limbs, q \in Seq(Int \X Limbs)] ==
    IF Len(q) = 5
    THEN <<<<q[1][1], q[2][1], q[3][1], q[4][1], q[5][1]>>, q[1][2]>>
    ELSE LongDiv[v, <<DivStep[q[1][2], v]>> \o q]

\* The quotient of two finite non-zero doubles with significands of 53
\* bits: floor(mx * 2^56 / my), the remainder telling whether it is exact.
DivPacked[s \in Int, e \in Int, qr \in Limbs \X Limbs] ==
    Call("Pack", <<s, qr[1], e - 56, qr[2] # NoLimbs>>)
DivNormal[x \in Double, y \in Double] ==
    DivPacked[(x[1] + y[1]) % 2, x[2] - y[2],
              LongDiv[Window[y[3], -3], <<DivFirst[Window[x[3], -3], Window[y[3], -3]]>>]]

\* x / y.
DivFn[x \in Double, y \in Double] ==
    IF IsNaN(x) \/ IsNaN(y) THEN NaN
    ELSE IF IsInf(x) THEN (IF IsInf(y) THEN NaN ELSE Inf((x[1] + y[1]) % 2))
    ELSE IF IsInf(y) THEN SignedZero((x[1] + y[1]) % 2)
    ELSE IF IsZero(y) THEN (IF IsZero(x) THEN NaN ELSE Inf((x[1] + y[1]) % 2))
    ELSE IF IsZero(x) THEN SignedZero((x[1] + y[1]) % 2)
    ELSE DivNormal[Normalized[x], Normalized[y]]
Div(x, y) == Call("DivFn", <<x, y>>)

\* The integer square root of n, 2^26 <= n < 2^28, by Newton's iteration
\* from r = 2^14 downwards.
IntRoot[n \in Int, r \in Int] ==
    IF (r + n \div r) \div 2 >= r THEN r ELSE IntRoot[n, (r + n \div r) \div 2]

\* The square root of a natural n of eight limbs, 2^110 <= n < 2^112, limb
\* by limb as in long division.  A step has the root p of the limbs taken
\* so far and the remainder rem, brings down two more limbs of n, and finds
\* the largest limb q with (2 p Radix + q) q <= rp, rp being rem with the
\* two limbs; v is 2 p.

\* The trial limb q lowered until it fits.
RootDigit[v \in Limbs, rp \in Limbs, q \in Int] ==
    IF NatCmp[NatScale[<<q>> \o v, q, Len(v) + 1], rp, Len(rp) + 1] <= 0 THEN q
    ELSE RootDigit[v, rp, q - 1]

\* The first trial: the quotient of the top limbs of rp and of v, plus 1,
\* which is never below the limb sought.
RootTrial[v \in Limbs, rp \in Limbs, j \in Int] ==
    IF (rp[j + 1] + Radix * rp[j + 2] + Radix * Radix * rp[j + 3])
            \div (v[j] + Radix * v[j + 1]) + 1 >= Radix
    THEN Radix - 1
    ELSE (rp[j + 1] + Radix * rp[j + 2] + Radix * Radix * rp[j + 3])
            \div (v[j] + Radix * v[j + 1]) + 1

\* The root and the remainder after the step that found q.
RootNext[p \in Limbs, v \in Limbs, rp \in Limbs, q \in Int] ==
    <<<<q>> \o p,
      SubSeq(NatSub[rp, NatScale[<<q>> \o v, q, Len(v) + 1], Len(rp)], 1, Len(rp) - 1)>>

RootStepAt[p \in Limbs, v \in Limbs, rp \in Limbs] ==
    RootNext[p, v, rp, RootDigit[v, rp, RootTrial[v, rp, Len(p)]]]

\* One step from the pair s = <<p, rem>>, lo and hi being the next two
\* limbs of n.
RootStep[s \in Limbs \X Limbs, lo \in Int, hi \in Int] ==
    RootStepAt[s[1], NatAdd[s[1], s[1], Len(s[1])], <<lo, hi>> \o s[2]]

\* The first limb r of the root, from the two top limbs d of n.
RootFirst[d \in Int, r \in Int] ==
    <<<<r>>, <<(d - r * r) % Radix, (d - r * r) \div Radix>>>>

\* <<root, remainder>> of n.
NatRoot[n \in Limbs] ==
    RootStep[RootStep[RootStep[RootFirst[n[7] + Radix * n[8],
                                         IntRoot[n[7] + Radix * n[8], Radix]],
                               n[5], n[6]],
                      n[3], n[4]],
             n[1], n[2]]

\* The square root of m * 2^(x - 52) for a significand m of 53 bits: the
\* root of m * 2^58 or m * 2^59, whichever leaves an even exponent.
SqrtPacked[x \in Int, qr \in Limbs \X Limbs] ==
    Call("Pack", <<0, qr[1], x \div 2, \E i \in 1..Len(qr[2]) : qr[2][i] # 0>>)
SqrtNormal[x \in Double] ==
    IF (x[2] - 52 - 58) % 2 = 0
    THEN SqrtPacked[x[2] - 52 - 58, NatRoot[Shifted[x[3], -58, 8]]]
    ELSE SqrtPacked[x[2] - 52 - 59, NatRoot[Shifted[x[3], -59, 8]]]

\* Math.sqrt.
SqrtFn[x \in Double] ==
    IF IsNaN(x) THEN NaN
    ELSE IF IsZero(x) THEN x
    ELSE IF x[1] = 1 THEN NaN
    ELSE IF IsInf(x) THEN PosInf
    ELSE SqrtNormal[Normalized[x]]
Sqrt(x) == Call("SqrtFn", x)
\* ------------------------------------------------------------------------
\* Words and integers of a double
\* ------------------------------------------------------------------------

\* 0.5, 1 and 2.
Half == <<0, -1, <<0, 0, 0, 1024>>>>
One == <<0, 0, <<0, 0, 0, 1024>>>>
Two == <<0, 1, <<0, 0, 0, 1024>>>>

\* 2^k for -1022 <= k <= 1023.
TwoTo(k) == <<0, k, <<0, 0, 0, 1024>>>>

\* |x|.
Fabs(x) == <<0, x[2], x[3]>>

\* The high word of |x|: the 11 bits of the biased exponent followed by the
\* top 20 bits of the fraction.
HighWord[x \in Double] ==
    IF ~IsFinite(x) THEN (IF IsNaN(x) THEN 2146959360 ELSE 2146435072)
    ELSE IF x[3][4] >= 1024
    THEN (x[2] + 1023) * 1048576 + (x[3][4] - 1024) * 1024 + (x[3][3] \div 16)
    ELSE x[3][4] * 1024 + (x[3][3] \div 16)

\* The biased exponent of x.
BiasedExp[x \in Double] == HighWord[x] \div 1048576

\* The positive normal double with high word h and low word 0.
FromHighWord[h \in Int] ==
    <<0, (h \div 1048576) - 1023,
      <<0, 0, ((h % 1048576) % 1024) * 16, 1024 + ((h % 1048576) \div 1024)>>>>

\* (int) x: x truncated towards zero, for |x| < 2^31.
TruncInt[x \in Double] ==
    IF x[2] < 0 THEN 0
    ELSE (IF x[1] = 1 THEN -1 ELSE 1) * IntOf[Window[x[3], 52 - x[2]]]

\* The literal n / 10^k (0.5 is Decimal(5, 10)): the double nearest to the
\* quotient of the two integers.
DecimalFn[n \in Int, d \in Int] == Div(FromInt(n), FromInt(d))
Decimal(n, d) == Call("DecimalFn", <<n, d>>)

\* ------------------------------------------------------------------------
\* Math.log: __ieee754_log of fdlibm, the implementation of V8
\* ------------------------------------------------------------------------

Third == <<0, -2, <<5461, 5461, 5461, 1365>>>>
Ln2Hi == <<0, -1, <<0, 15232, 9263, 1419>>>>
Ln2Lo == <<0, -33, <<15478, 5604, 7923, 1678>>>>
Lg1 == <<0, -1, <<5523, 5461, 5461, 1365>>>>
Lg2 == <<0, -2, <<14852, 9823, 6553, 1638>>>>
Lg3 == <<0, -2, <<4953, 4234, 4681, 1170>>>>
Lg4 == <<0, -3, <<14511, 13881, 7249, 1820>>>>
Lg5 == <<0, -3, <<990, 6956, 9801, 1489>>>>
Lg6 == <<0, -3, <<1695, 483, 8349, 1254>>>>
Lg7 == <<0, -3, <<4676, 15609, 4397, 1212>>>>

\* |f| < 2^-20: f - f*f*(0.5 - f/3), plus k ln 2.
LogNearOne[f \in Double, k \in Int, dk \in Double, R \in Double] ==
    IF IsZero(f)
    THEN (IF k = 0 THEN Zero ELSE Add(Mul(dk, Ln2Hi), Mul(dk, Ln2Lo)))
    ELSE IF k = 0 THEN Sub(f, R)
    ELSE Sub(Mul(dk, Ln2Hi), Sub(Sub(R, Mul(dk, Ln2Lo)), f))

\* The result when the fraction bits hx lie in 0x6147a..0x6b851.
LogHigh[f \in Double, k \in Int, dk \in Double, s \in Double, R \in Double, hfsq \in Double] ==
    IF k = 0 THEN Sub(f, Sub(hfsq, Mul(s, Add(hfsq, R))))
    ELSE Sub(Mul(dk, Ln2Hi),
             Sub(Sub(hfsq, Add(Mul(s, Add(hfsq, R)), Mul(dk, Ln2Lo))), f))

\* The result from R = t2 + t1.
LogSum[f \in Double, k \in Int, dk \in Double, hx \in Int, s \in Double, R \in Double] ==
    IF hx >= 398458 /\ hx <= 440401
    THEN LogHigh[f, k, dk, s, R, Mul(Mul(Half, f), f)]
    ELSE IF k = 0 THEN Sub(f, Mul(s, Sub(f, R)))
    ELSE Sub(Mul(dk, Ln2Hi), Sub(Sub(Mul(s, Sub(f, R)), Mul(dk, Ln2Lo)), f))

\* The two polynomials in w = z*z.
LogTerms[f \in Double, k \in Int, dk \in Double, hx \in Int, s \in Double, z \in Double, w \in Double] ==
    LogSum[f, k, dk, hx, s,
           Add(Mul(z, Add(Lg1, Mul(w, Add(Lg3, Mul(w, Add(Lg5, Mul(w, Lg7))))))),
               Mul(w, Add(Lg2, Mul(w, Add(Lg4, Mul(w, Lg6))))))]

LogSquares[f \in Double, k \in Int, dk \in Double, hx \in Int, s \in Double, z \in Double] ==
    LogTerms[f, k, dk, hx, s, z, Mul(z, z)]

LogSeries[f \in Double, k \in Int, dk \in Double, hx \in Int, s \in Double] ==
    LogSquares[f, k, dk, hx, s, Mul(s, s)]

\* log(2^k * (1 + f)), hx being the top 20 fraction bits of the argument.
LogReduced[f \in Double, k \in Int, hx \in Int] ==
    IF hx = 0 \/ hx >= 1048574
    THEN LogNearOne[f, k, FromInt(k), Mul(Mul(f, f), Sub(Half, Mul(Third, f)))]
    ELSE LogSeries[f, k, FromInt(k), hx, Div(f, Add(Two, f))]

\* The argument m * 2^k with m in [1, 2) reduced to [sqrt(2)/2, sqrt(2)):
\* from 0x6a09c on the fraction bits give m/2 and k + 1.
LogScaled[m \in Limbs, k \in Int, hx \in Int] ==
    IF hx >= 434332 THEN LogReduced[Sub(<<0, -1, m>>, One), k + 1, hx]
    ELSE LogReduced[Sub(<<0, 0, m>>, One), k, hx]

LogNormal[x \in Double] ==
    LogScaled[x[3], x[2], (x[3][4] - 1024) * 1024 + (x[3][3] \div 16)]

\* Math.log.
LogFn[x \in Double] ==
    IF IsNaN(x) THEN NaN
    ELSE IF IsZero(x) THEN NegInf
    ELSE IF x[1] = 1 THEN NaN
    ELSE IF IsInf(x) THEN PosInf
    ELSE LogNormal[Normalized[x]]
Log(x) == Call("LogFn", x)

\* ------------------------------------------------------------------------
\* Math.exp: __ieee754_exp of fdlibm, as V8 has it (exp(1) is E)
\* ------------------------------------------------------------------------

OThreshold == <<0, 9, <<14831, 15336, 9263, 1419>>>>
UThreshold == <<1, 9, <<12369, 5300, 4365, 1490>>>>
InvLn2 == <<0, 0, <<766, 5294, 5238, 1477>>>>
ExpP1 == <<0, -3, <<5438, 5461, 5461, 1365>>>>
ExpP2 == <<1, -9, <<15763, 6906, 5825, 1456>>>>
ExpP3 == <<0, -14, <<7724, 15511, 9898, 1109>>>>
ExpP4 == <<1, -20, <<11249, 5961, 5148, 1775>>>>
ExpP5 == <<0, -25, <<9424, 2810, 13975, 1421>>>>
EulerE == <<0, 1, <<5993, 11345, 12456, 1391>>>>

\* y * 2^k.
ExpScaled[y \in Double, k \in Int] ==
    IF k >= -1021
    THEN (IF k = 1024 THEN Mul(Mul(y, Two), TwoTo(1023)) ELSE Mul(y, TwoTo(k)))
    ELSE Mul(Mul(y, TwoTo(k + 1000)), TwoTo(-1000))

\* exp(x) * 2^k from c, for the reduced argument x = hi - lo.
ExpResult[x \in Double, hi \in Double, lo \in Double, k \in Int, c \in Double] ==
    IF k = 0 THEN Sub(One, Sub(Div(Mul(x, c), Sub(c, Two)), x))
    ELSE ExpScaled[Sub(One, Sub(Sub(lo, Div(Mul(x, c), Sub(Two, c))), hi)), k]

ExpPoly[x \in Double, hi \in Double, lo \in Double, k \in Int, t \in Double] ==
    ExpResult[x, hi, lo, k,
              Sub(x, Mul(t, Add(ExpP1, Mul(t, Add(ExpP2, Mul(t, Add(ExpP3, Mul(t, Add(ExpP4, Mul(t, ExpP5))))))))))]

ExpPrimary[x \in Double, hi \in Double, lo \in Double, k \in Int] ==
    ExpPoly[x, hi, lo, k, Mul(x, x)]

ExpSplit[hi \in Double, lo \in Double, k \in Int] == ExpPrimary[Sub(hi, lo), hi, lo, k]

\* |x| >= 1.5 ln 2: k = (int)(invln2 * x +- 0.5).
ExpLarge[x \in Double, t \in Double, k \in Int] ==
    ExpSplit[Sub(x, Mul(t, Ln2Hi)), Mul(t, Ln2Lo), k]
ExpByK[x \in Double, k \in Int] == ExpLarge[x, FromInt(k), k]

\* Argument reduction on the high word hx of |x|.
ExpReduce[x \in Double, hx \in Int] ==
    IF hx > 1071001154
    THEN (IF hx < 1072734898
          THEN (IF x = One THEN EulerE
                ELSE IF x[1] = 0 THEN ExpSplit[Sub(x, Ln2Hi), Ln2Lo, 1]
                ELSE ExpSplit[Add(x, Ln2Hi), Neg(Ln2Lo), -1])
          ELSE ExpByK[x, TruncInt[Add(Mul(InvLn2, x), IF x[1] = 0 THEN Half ELSE Neg(Half))]])
    ELSE IF hx < 1043333120 THEN Add(One, x)
    ELSE ExpPrimary[x, Zero, Zero, 0]

\* Math.exp.
ExpFn[x \in Double] ==
    IF IsNaN(x) THEN NaN
    ELSE IF IsInf(x) THEN (IF x[1] = 0 THEN PosInf ELSE Zero)
    ELSE IF Less(OThreshold, x) THEN PosInf
    ELSE IF Less(x, UThreshold) THEN Zero
    ELSE ExpReduce[x, HighWord[x]]
Exp(x) == Call("ExpFn", x)

\* ------------------------------------------------------------------------
\* Math.cos: cos, __ieee754_rem_pio2, __kernel_cos and __kernel_sin of
\* fdlibm, for |x| up to 2^19 * pi/2
\* ------------------------------------------------------------------------

CosC1 == <<0, -5, <<5452, 5461, 5461, 1365>>>>
CosC2 == <<1, -10, <<4471, 6917, 5825, 1456>>>>
CosC3 == <<0, -16, <<5520, 10028, 6657, 1664>>>>
CosC4 == <<1, -22, <<4781, 625, 9464, 1183>>>>
CosC5 == <<0, -29, <<12740, 14034, 10731, 1147>>>>
CosC6 == <<1, -37, <<14548, 14880, 11931, 1598>>>>
SinS1 == <<1, -3, <<5449, 5461, 5461, 1365>>>>
SinS2 == <<0, -7, <<14502, 1091, 4369, 1092>>>>
SinS3 == <<1, -13, <<8661, 9989, 6657, 1664>>>>
SinS4 == <<0, -19, <<15997, 7879, 7733, 1479>>>>
SinS5 == <<1, -26, <<7403, 10414, 7784, 1721>>>>
SinS6 == <<0, -33, <<5500, 11071, 5029, 1398>>>>
InvPio2 == <<0, -1, <<2179, 14119, 13062, 1303>>>>
Pio2_1 == <<0, 0, <<0, 4352, 8117, 1608>>>>
Pio2_1t == <<0, -34, <<9009, 10633, 1553, 1069>>>>
Pio2_2 == <<0, -34, <<0, 10624, 1553, 1069>>>>
Pio2_2t == <<0, -69, <<12403, 14349, 6306, 1222>>>>
Pio2_3 == <<0, -69, <<0, 14336, 6306, 1222>>>>
Pio2_3t == <<0, -104, <<2497, 5249, 14754, 1760>>>>
Qx == <<0, -2, <<0, 0, 0, 1152>>>>

\* Math.PI / 2 and 2 * Math.PI.
HalfPi == <<0, 0, <<11544, 4368, 8117, 1608>>>>
TwoPi == <<0, 2, <<11544, 4368, 8117, 1608>>>>

\* __kernel_cos(x, y) from z = x*x and r, ix being the high word of |x|.
KernelCosSum[x \in Double, y \in Double, ix \in Int, z \in Double, r \in Double, qx \in Double] ==
    Sub(Sub(One, qx), Sub(Sub(Mul(Half, z), qx), Sub(Mul(z, r), Mul(x, y))))

KernelCosPoly[x \in Double, y \in Double, ix \in Int, z \in Double, r \in Double] ==
    IF ix < 1070805811
    THEN Sub(One, Sub(Mul(Half, z), Sub(Mul(z, r), Mul(x, y))))
    ELSE IF ix > 1072234496 THEN KernelCosSum[x, y, ix, z, r, Qx]
    ELSE KernelCosSum[x, y, ix, z, r, FromHighWord[ix - 2097152]]

KernelCosSquare[x \in Double, y \in Double, ix \in Int, z \in Double] ==
    KernelCosPoly[x, y, ix, z,
                  Mul(z, Add(CosC1, Mul(z, Add(CosC2, Mul(z, Add(CosC3, Mul(z, Add(CosC4, Mul(z, Add(CosC5, Mul(z, CosC6)))))))))))]

KernelCosAt[x \in Double, y \in Double, ix \in Int] ==
    IF ix < 1044381696 /\ TruncInt[x] = 0 THEN One
    ELSE KernelCosSquare[x, y, ix, Mul(x, x)]

KernelCos[x \in Double, y \in Double] == KernelCosAt[x, y, HighWord[x]]

\* __kernel_sin(x, y, 1) from z = x*x, v = z*x and r.
KernelSinPoly[x \in Double, y \in Double, z \in Double, v \in Double, r \in Double] ==
    Sub(x, Sub(Sub(Mul(z, Sub(Mul(Half, y), Mul(v, r))), y), Mul(v, SinS1)))

KernelSinCube[x \in Double, y \in Double, z \in Double, v \in Double] ==
    KernelSinPoly[x, y, z, v,
                  Add(SinS2, Mul(z, Add(SinS3, Mul(z, Add(SinS4, Mul(z, Add(SinS5, Mul(z, SinS6))))))))]

KernelSinSquare[x \in Double, y \in Double, z \in Double] ==
    KernelSinCube[x, y, z, Mul(z, x)]

KernelSin[x \in Double, y \in Double] ==
    IF HighWord[x] < 1044381696 /\ TruncInt[x] = 0 THEN x
    ELSE KernelSinSquare[x, y, Mul(x, x)]

\* The remainder <<n, y0, y1>> of rem_pio2 from r, w and y0 = r - w.
RemTail[n \in Int, r \in Double, w \in Double, y0 \in Double] ==
    <<n, y0, Sub(Sub(r, y0), w)>>
RemClose[n \in Int, r \in Double, w \in Double] == RemTail[n, r, w, Sub(r, w)]

\* The third iteration, with pio2_3.
RemThirdW[n \in Int, fn \in Double, t \in Double, w \in Double, r \in Double] ==
    RemClose[n, r, Sub(Mul(fn, Pio2_3t), Sub(Sub(t, r), w))]
RemThirdR[n \in Int, fn \in Double, t \in Double, w \in Double] ==
    RemThirdW[n, fn, t, w, Sub(t, w)]
RemThird[n \in Int, fn \in Double, t \in Double] == RemThirdR[n, fn, t, Mul(fn, Pio2_3)]

\* The second iteration, with pio2_2: j is the biased exponent of x.
RemSecondY[n \in Int, fn \in Double, j \in Int, r \in Double, w \in Double, y0 \in Double] ==
    IF j - BiasedExp[y0] > 49 THEN RemThird[n, fn, r] ELSE RemTail[n, r, w, y0]
RemSecondW[n \in Int, fn \in Double, j \in Int, r \in Double, w \in Double] ==
    RemSecondY[n, fn, j, r, w, Sub(r, w)]
RemSecondR[n \in Int, fn \in Double, j \in Int, t \in Double, w \in Double, r \in Double] ==
    RemSecondW[n, fn, j, r, Sub(Mul(fn, Pio2_2t), Sub(Sub(t, r), w))]
RemSecondT[n \in Int, fn \in Double, j \in Int, t \in Double, w \in Double] ==
    RemSecondR[n, fn, j, t, w, Sub(t, w)]
RemSecond[n \in Int, fn \in Double, j \in Int, t \in Double] ==
    RemSecondT[n, fn, j, t, Mul(fn, Pio2_2)]

\* The first iteration, with pio2_1: the quick path when the high word ix
\* of x is not that of n * pi/2, else a check of the cancellation.
RemFirstY[n \in Int, fn \in Double, ix \in Int, r \in Double, w \in Double, y0 \in Double] ==
    IF n < 32 /\ ix # HighWord[Mul(FromInt(n), HalfPi)] THEN RemTail[n, r, w, y0]
    ELSE IF (ix \div 1048576) - BiasedExp[y0] > 16 THEN RemSecond[n, fn, ix \div 1048576, r]
    ELSE RemTail[n, r, w, y0]
RemFirstW[n \in Int, fn \in Double, ix \in Int, r \in Double, w \in Double] ==
    RemFirstY[n, fn, ix, r, w, Sub(r, w)]
RemFirst[x \in Double, n \in Int, fn \in Double, ix \in Int] ==
    RemFirstW[n, fn, ix, Sub(x, Mul(fn, Pio2_1)), Mul(fn, Pio2_1t)]
RemMedium[x \in Double, n \in Int, ix \in Int] == RemFirst[x, n, FromInt(n), ix]

\* |x| < 3 pi/4: n = 1.
RemOne[z \in Double, t \in Double, y0 \in Double] == <<1, y0, Sub(Sub(z, y0), t)>>
RemNearHalfPi[z \in Double] == RemOne[z, Pio2_2t, Sub(z, Pio2_2t)]
RemQuarter[z \in Double, ix \in Int] ==
    IF ix # 1073291771 THEN RemOne[z, Pio2_1t, Sub(z, Pio2_1t)]
    ELSE RemNearHalfPi[Sub(z, Pio2_2)]

\* __ieee754_rem_pio2 for a finite x >= 0 with high word ix <= 0x413921fb:
\* <<n, y0, y1>> with x = n * pi/2 + y0 + y1.
RemPio2[x \in Double, ix \in Int] ==
    IF ix <= 1072243195 THEN <<0, x, Zero>>
    ELSE IF ix < 1073928572 THEN RemQuarter[Sub(x, Pio2_1), ix]
    ELSE RemMedium[x, TruncInt[Add(Mul(x, InvPio2), Half)], ix]

\* The cosine from the remainder.
CosQuadrant[q \in Int \X Double \X Double] ==
    IF q[1] % 4 = 0 THEN KernelCos[q[2], q[3]]
    ELSE IF q[1] % 4 = 1 THEN Neg(KernelSin[q[2], q[3]])
    ELSE IF q[1] % 4 = 2 THEN Neg(KernelCos[q[2], q[3]])
    ELSE KernelSin[q[2], q[3]]

CosAt[x \in Double, ix \in Int] ==
    IF ix <= 1072243195 THEN KernelCos[x, Zero]
    ELSE CosQuadrant[RemPio2[x, ix]]

\* Math.cos, defined for a finite argument up to 2^19 * pi/2 in magnitude
\* (the angle 2 * Math.PI * u of line 21 is at most 2 * Math.PI), and for
\* the infinities and NaN.
CosFn[x \in {d \in Double : HighWord[d] <= 1094263291 \/ ~IsFinite(d)}] ==
    IF ~IsFinite(x) THEN NaN ELSE CosAt[Fabs(x), HighWord[x]]
Cos(x) == Call("CosFn", x)

\* ------------------------------------------------------------------------
\* Number.prototype.toFixed
\* ------------------------------------------------------------------------

\* The double nearest to n / 1000, with sign s (the conversion of the
\* string that toFixed(3) gives back to a number).
Thousandths[s \in Int, n \in Limbs] == Div(Call("Pack", <<s, n, 0, FALSE>>), FromInt(1000))

\* floor(n / 2^p + 1/2) for a natural n of five limbs and p >= 1: n shifted
\* down by p - 1 bits, plus 1, shifted down by one more bit.
HalfUp[n \in Limbs, p \in Int] ==
    Shifted[NatAdd[Shifted[n, p - 1, 5], <<1>>, 5], 1, 5]

\* +x.toFixed(3) (lines 146-157): the integer n for which n / 1000 is
\* nearest to the exact value of x, the larger n when two are as near, and
\* then the double nearest to n / 1000.  A number of magnitude 2^43 or more
\* is a multiple of 2^-9 and is given back as it is; -0 gives "0.000" and
\* a negative number that rounds to 0 gives "-0.000", which is -0.
ToFixed3Fn[x \in Double] ==
    IF ~IsFinite(x) \/ x[2] >= 43 THEN x
    ELSE IF IsZero(x) THEN Zero
    ELSE IF x[2] < -12 THEN SignedZero(x[1])
    ELSE Thousandths[x[1], HalfUp[NatScale[x[3], 1000, 4], 52 - x[2]]]
ToFixed3(x) == Call("ToFixed3Fn", x)

\* ------------------------------------------------------------------------
\* SeededRandom.next (lines 12-15)
\* ------------------------------------------------------------------------

\* The multiplier and the increment of the generator, and the mask
\* 0x7fffffff (line 13).
Multiplier == 1103515245
Increment == 12345
Mask31 == 2147483647

\* The low 31 bits of a natural number.
Low31[w \in Limbs] == w[1] + Radix * w[2] + Radix * Radix * (w[3] % 8)

\* The low 31 bits of the two's complement of -m, m being the low 31 bits
\* of the magnitude.
Complement[m \in Int] == IF m = 0 THEN 0 ELSE (Mask31 - m) + 1

\* x & 0x7fffffff: x is truncated to an integer, taken modulo 2^32 as a
\* two's complement word, and its low 31 bits are kept.  NaN and the
\* infinities give 0.
MaskedFn[x \in Double] ==
    IF ~IsFinite(x) THEN 0
    ELSE IF x[1] = 0 THEN Low31[Window[x[3], 52 - x[2]]]
    ELSE Complement[Low31[Window[x[3], 52 - x[2]]]]

\* (this.seed * 1103515245 + 12345) & 0x7fffffff (line 13): the product is
\* rounded to a double, the sum is rounded to a double, and the bitwise AND
\* keeps the low 31 bits.
NextSeedFn[seed \in Int] ==
    MaskedFn[Add(Mul(FromInt(seed), FromInt(Multiplier)), FromInt(Increment))]
NextSeed(seed) == Call("NextSeedFn", seed)

\* this.seed / 0x7fffffff (line 14).
UniformFn[seed \in Int] == Div(FromInt(seed), FromInt(Mask31))
Uniform(seed) == Call("UniformFn", seed)

\* 1 / (1 + Math.exp(x)) (line 114).
LogisticFn[x \in Double] == Div(One, Add(One, Exp(x)))
Logistic(x) == LogisticFn[x]

\* ------------------------------------------------------------------------
\* class SeededRandom (lines 7-36).  A stream is its seed; every sampler
\* returns the seed it leaves behind and the value it returns.
\* ------------------------------------------------------------------------

\* next with the remainder operator in place of the bitwise AND,
\* (seed * 1103515245 + 12345) % 0x80000000: the remainder keeps the sign of
\* a negative sum.  The variant C13 is tested against.
nextRemainder(seed) ==
    IF seed >= 0 THEN [seed |-> NextSeed(seed), value |-> Uniform(NextSeed(seed))]
    ELSE [seed |-> -Complement[NextSeed(seed)],
          value |-> Uniform(-Complement[NextSeed(seed)])]

\* next(): update the seed and return seed / 0x7fffffff.
next(seed) == [seed |-> NextSeed(seed), value |-> Uniform(NextSeed(seed))]

\* Math.sqrt(-2 * Math.log(u1)) * Math.cos(2 * Math.PI * u2) (line 21), for
\* the draws u1 and u2 that the seeds s1 and s2 give.
BoxMuller(s1, s2) ==
    Mul(Sqrt(Mul(Neg(Two), Log(Uniform(s1)))), Cos(Mul(TwoPi, Uniform(s2))))

\* nextNormal(mean, std): Box-Muller on two consecutive draws u1, u2
\* (lines 18-23).
nextNormal(seed, mean, std) ==
    Only({[seed  |-> NextSeed(s1),
           value |-> Add(mean, Mul(BoxMuller(s1, NextSeed(s1)), std))]
          : s1 \in {NextSeed(seed)}})

\* nextTruncatedNormal(mean, std, min, max): one normal draw, clamped
\* (lines 26-29).
nextTruncatedNormal(seed, mean, std, min, max) ==
    Only({[seed |-> n.seed, value |-> MathMax(min, MathMin(max, n.value))]
          : n \in {nextNormal(seed, mean, std)}})

\* nextPoisson(mean, min, max): 1 when one uniform draw is below mean,
\* else 0, clamped (lines 32-35).
nextPoisson(seed, mean, min, max) ==
    Only({[seed  |-> u.seed,
           value |-> MathMax(min, MathMin(max, IF Less(u.value, mean)
                                               THEN One ELSE Zero))]
          : u \in {next(seed)}})

\* ------------------------------------------------------------------------
\* runSimulation (lines 41-163)
\* ------------------------------------------------------------------------

\* coefficients.varN || 1: a supplied 0 is replaced by 1 as well.  The
\* variant C12 is tested against.
CoefficientOrOne(coefficients, n) ==
    IF n \in DOMAIN coefficients /\ ~IsZero(coefficients[n]) /\ ~IsNaN(coefficients[n])
    THEN coefficients[n] ELSE One

\* coefficients.varN ?? 1 (lines 45-54): the coefficients are a function on
\* the subset of 1..10 whose keys are present.
Coefficient(coefficients, n) ==
    IF n \in DOMAIN coefficients THEN coefficients[n] ELSE One

\* The five streams of a run (lines 58-62).
Streams(base) ==
    [advance        |-> base,
     setback        |-> base + 1000,
     setbackPoisson |-> base + 1500,
     challenge      |-> base + 2000,
     hindrance      |-> base + 3000]

\* Progress sensitivity = time / finalTime (line 77).
ProgressSensitivity(time, finalTime) == Div(FromInt(time), FromInt(finalTime))

\* Relative progress = progress / cumulativeEffort, 0 without effort (line 80).
RelativeProgress(progress, cumulativeEffort) ==
    IF StrictEq(cumulativeEffort, Zero) THEN Zero ELSE Div(progress, cumulativeEffort)

\* Resources (line 83).
ResourcesFn[ambition \in Double, progressSensitivity \in Double, relativeProgress \in Double] ==
    Add(Mul(ambition, Sub(One, progressSensitivity)),
        Mul(relativeProgress, progressSensitivity))
Resources(ambition, progressSensitivity, relativeProgress) ==
    ResourcesFn[ambition, progressSensitivity, relativeProgress]

\* Stressors drawn whatever the ambition: the variant C17 is tested against.
StressorsAlwaysDrawn(ambition, seed) ==
    nextTruncatedNormal(seed, Zero, ambition, Zero, ambition)

\* Challenge and hindrance stressors (lines 86-87 and 90-91): no draw when
\* ambition is 0.  Returns the value and the seed the stream is left with.
Stressors(ambition, seed) ==
    IF StrictEq(ambition, Zero) THEN [seed |-> seed, value |-> Zero]
    ELSE nextTruncatedNormal(seed, Zero, ambition, Zero, ambition)

\* Recovery without the branch on ambition = 0: the variant C5 is tested
\* against.
RecoveryUnguarded(ambition, selfRegulation, Var2, Var3, challengeStressors, hindranceStressors) ==
    Sub(One,
        Div(Mul(Sub(One, selfRegulation),
                Add(Mul(Var2, challengeStressors),
                    Mul(Var3, hindranceStressors))),
            Mul(Two, ambition)))

\* Recovery with the stressor load divided by ambition instead of
\* 2 * ambition: the variant C21 is tested against.
RecoveryPerAmbition(ambition, selfRegulation, Var2, Var3, challengeStressors, hindranceStressors) ==
    IF StrictEq(ambition, Zero) THEN One
    ELSE Sub(One,
             Div(Mul(Sub(One, selfRegulation),
                     Add(Mul(Var2, challengeStressors),
                         Mul(Var3, hindranceStressors))),
                 ambition))

\* Recovery (lines 94-95).
Recovery(ambition, selfRegulation, Var2, Var3, challengeStressors, hindranceStressors) ==
    IF StrictEq(ambition, Zero) THEN One
    ELSE Sub(One,
             Div(Mul(Sub(One, selfRegulation),
                     Add(Mul(Var2, challengeStressors),
                         Mul(Var3, hindranceStressors))),
                 Mul(Two, ambition)))

\* Motivation increase (line 100).
MotivationIncrease(challengeStressors, resources, recovery, Var1) ==
    Mul(Mul(MathMax(challengeStressors, resources), recovery), Var1)

\* Motivation decrease (line 103).
MotivationDecrease(motivation, selfRegulation, hindranceStressors, Var7) ==
    MathMin(motivation, Mul(Mul(Sub(One, selfRegulation), hindranceStressors), Var7))

\* Strain increase (lines 106-107).
StrainIncrease(ambition, selfRegulation, Var4, Var5, challengeStressors, hindranceStressors) ==
    IF StrictEq(ambition, Zero) THEN Zero
    ELSE Div(Mul(Sub(One, selfRegulation),
                 Add(Mul(Var4, challengeStressors),
                     Mul(Var5, hindranceStressors))),
             Mul(Two, ambition))

\* Strain decrease (line 110).
StrainDecrease(strain, resources, recovery, Var6) ==
    MathMin(strain, Mul(Mul(resources, recovery), Var6))

\* Effort without the branch on motivation = 0: the variant C9 is tested
\* against.
EffortUnguarded(motivation, strain, Var8) ==
    Mul(Var8, Logistic(Sub(strain, motivation)))

\* Effort (lines 113-114).
Effort(motivation, strain, Var8) ==
    IF StrictEq(motivation, Zero) THEN Zero
    ELSE Mul(Var8, Logistic(Sub(strain, motivation)))

\* Advance (line 118).
Advance(skill, effort, advanceRandom) ==
    IF StrictEq(skill, Zero) THEN Zero ELSE Mul(Mul(effort, skill), advanceRandom)

\* Setback (line 123).
Setback(setbackPoisson, progress, setbackRandom) ==
    Mul(setbackPoisson, MathMin(progress, setbackRandom))

\* The stock update and the clamp (lines 127-135).
UpdateStocks(st, motivationIncrease, motivationDecrease, strainIncrease, strainDecrease, effort, advance, setback) ==
    [motivation |-> MathMax(Zero, Sub(Add(st.motivation, motivationIncrease),
                                   motivationDecrease)),
     strain |-> MathMax(Zero, Sub(Add(st.strain, strainIncrease), strainDecrease)),
     cumulativeEffort |-> Add(st.cumulativeEffort, effort),
     progress |-> MathMax(Zero, Sub(Add(st.progress, advance), setback))]

\* Well-being (line 140).
Wellbeing(Var9, Var10, motivation, strain) ==
    Sub(Mul(Var9, motivation), Mul(Var10, strain))

\* The draws of one period (lines 86, 90, 117, 121, 122), each with the seed
\* its stream is left with.  The five streams are independent.
Draws(p, rng) ==
    [challenge |-> Stressors(p.ambition, rng.challenge),
     hindrance |-> Stressors(p.ambition, rng.hindrance),
     advance   |-> nextTruncatedNormal(rng.advance, Zero, p.ambition, Zero, p.ambition),
     poisson   |-> nextPoisson(rng.setbackPoisson, p.dynamism, Zero, One),
     setback   |-> nextTruncatedNormal(rng.setback, Zero, p.ambition, Zero, p.ambition)]

\* The locals of a period are collected in a record, in the order of the
\* source: each step below adds the locals that depend on those before it.

\* Lines 77-91: progress sensitivity, relative progress and the stressors.
\* st holds the four stocks before the period, d the draws of the period.
PeriodAuxiliaries(p, finalTime, time, st, d) ==
    [time |-> time,
     before |-> st,
     progressSensitivity |-> ProgressSensitivity(time, finalTime),
     relativeProgress |-> RelativeProgress(st.progress, st.cumulativeEffort),
     challengeStressors |-> d.challenge.value,
     hindranceStressors |-> d.hindrance.value,
     advanceRandom |-> d.advance.value,
     setbackPoisson |-> d.poisson.value,
     setbackRandom |-> d.setback.value,
     rng |-> [advance        |-> d.advance.seed,
              setback        |-> d.setback.seed,
              setbackPoisson |-> d.poisson.seed,
              challenge      |-> d.challenge.seed,
              hindrance      |-> d.hindrance.seed]]

\* Lines 83 and 94-95: resources and recovery.
WithResources(p, x) ==
    Only({b @@ [resources |-> Resources(p.ambition, b.progressSensitivity,
                                        b.relativeProgress),
                recovery |-> Recovery(p.ambition, p.selfRegulation,
                                      Coefficient(p.coefficients, 2),
                                      Coefficient(p.coefficients, 3),
                                      b.challengeStressors, b.hindranceStressors)]
          : b \in {x}})

\* Lines 100-114: the flows of motivation and strain, and effort.
WithFlows(p, x) ==
    Only({b @@ [motivationIncrease |->
                    MotivationIncrease(b.challengeStressors, b.resources, b.recovery,
                                       Coefficient(p.coefficients, 1)),
                motivationDecrease |->
                    MotivationDecrease(b.before.motivation, p.selfRegulation,
                                       b.hindranceStressors,
                                       Coefficient(p.coefficients, 7)),
                strainIncrease |->
                    StrainIncrease(p.ambition, p.selfRegulation,
                                   Coefficient(p.coefficients, 4),
                                   Coefficient(p.coefficients, 5),
                                   b.challengeStressors, b.hindranceStressors),
                strainDecrease |->
                    StrainDecrease(b.before.strain, b.resources, b.recovery,
                                   Coefficient(p.coefficients, 6)),
                effort |-> Effort(b.before.motivation, b.before.strain,
                                  Coefficient(p.coefficients, 8))]
          : b \in {x}})

\* Lines 117-123: advance and setback.
WithProgressFlows(p, x) ==
    Only({b @@ [advance |-> Advance(p.skill, b.effort, b.advanceRandom),
                setback |-> Setback(b.setbackPoisson, b.before.progress,
                                    b.setbackRandom)]
          : b \in {x}})

\* Lines 127-135: the stocks after the update and the clamp.
WithStocks(x) ==
    Only({b @@ [after |-> UpdateStocks(b.before, b.motivationIncrease,
                                       b.motivationDecrease, b.strainIncrease,
                                       b.strainDecrease, b.effort, b.advance,
                                       b.setback)]
          : b \in {x}})

\* Well-being from the stocks the period started with: the variant C19 is
\* tested against.
WithWellbeingBefore(p, x) ==
    Only({b @@ [wellbeing |-> Wellbeing(Coefficient(p.coefficients, 9),
                                        Coefficient(p.coefficients, 10),
                                        b.before.motivation, b.before.strain)]
          : b \in {x}})

\* Line 140: well-being, from the stocks after the update.
WithWellbeing(p, x) ==
    Only({b @@ [wellbeing |-> Wellbeing(Coefficient(p.coefficients, 9),
                                        Coefficient(p.coefficients, 10),
                                        b.after.motivation, b.after.strain)]
          : b \in {x}})

\* The locals of one period given its draws d (lines 77-140).
PeriodFlows(p, finalTime, time, st, d) ==
    WithWellbeing(p,
        WithStocks(
            WithProgressFlows(p,
                WithFlows(p,
                    WithResources(p,
                        PeriodAuxiliaries(p, finalTime, time, st, d))))))

\* The body of the loop for one period (lines 77-140).
PeriodBody(p, finalTime, time, st, rng) ==
    Only({PeriodFlows(p, finalTime, time, st, d) : d \in {Draws(p, rng)}})

\* A point that records the stocks the period started with instead of the
\* stocks after the update: the variant C8 is tested against.
TrajectoryPointBefore(b) ==
    [period             |-> b.time,
     motivation         |-> ToFixed3(b.before.motivation),
     strain             |-> ToFixed3(b.before.strain),
     effort             |-> ToFixed3(b.effort),
     performance        |-> ToFixed3(b.before.progress),
     wellbeing          |-> ToFixed3(b.wellbeing),
     resources          |-> ToFixed3(b.resources),
     recovery           |-> ToFixed3(b.recovery),
     cumulativeEffort   |-> ToFixed3(b.before.cumulativeEffort),
     challengeStressors |-> ToFixed3(b.challengeStressors),
     hindranceStressors |-> ToFixed3(b.hindranceStressors),
     advance            |-> ToFixed3(b.advance),
     setback            |-> ToFixed3(b.setback)]

\* The point pushed on the trajectory (lines 144-158).
TrajectoryPoint(b) ==
    [period             |-> b.time,
     motivation         |-> ToFixed3(b.after.motivation),
     strain             |-> ToFixed3(b.after.strain),
     effort             |-> ToFixed3(b.effort),
     performance        |-> ToFixed3(b.after.progress),
     wellbeing          |-> ToFixed3(b.wellbeing),
     resources          |-> ToFixed3(b.resources),
     recovery           |-> ToFixed3(b.recovery),
     cumulativeEffort   |-> ToFixed3(b.after.cumulativeEffort),
     challengeStressors |-> ToFixed3(b.challengeStressors),
     hindranceStressors |-> ToFixed3(b.hindranceStressors),
     advance            |-> ToFixed3(b.advance),
     setback            |-> ToFixed3(b.setback)]

\* The stocks at the start of a run (lines 65-68).
InitialStocks ==
    [motivation |-> Zero, strain |-> Zero, cumulativeEffort |-> Zero,
     progress |-> Zero]

\* A loop that excludes the final period: the variant C6 is tested against.
LoopContinuesExclusive(time, finalTime) == time < finalTime

\* The loop condition (line 72) and the sampling condition (line 143).
LoopContinues(time, finalTime) == time <= finalTime
Sampled(time) == time % 5 = 0

\* seed || Math.floor(Math.random() * 1000000) (line 57).  The seed argument
\* is <<>> for null and <<n>> for the integer n; random is the value
\* Math.floor(Math.random() * 1000000) would give.
Null == <<>>
Falsy(seed) == seed = Null \/ seed[1] = 0
BaseSeed(seed, random) == IF Falsy(seed) THEN random ELSE seed[1]

\* ------------------------------------------------------------------------
\* runMultipleSimulations (lines 166-179)
\* ------------------------------------------------------------------------

\* A summary taken from the first point of the trajectory instead of the
\* last: the variant C7 is tested against.
RunSummaryFirst(i, trajectory) ==
    [run |-> i,
     performance |-> trajectory[1].performance,
     wellbeing |-> trajectory[1].wellbeing,
     finalEffort |-> trajectory[1].effort]

\* The summary pushed for run i (lines 170-176).
RunSummary(i, trajectory) ==
    LET final == trajectory[Len(trajectory)]
    IN  [run |-> i,
         performance |-> final.performance,
         wellbeing |-> final.wellbeing,
         finalEffort |-> final.effort]

\* ------------------------------------------------------------------------
\* Call(f, a) is the function named f applied to the argument a.  The
\* operations of the arithmetic, and the period of the engine, are applied
\* through it: the operator is recursive, so TLC expands the definitions
\* below it once instead of once for every place that uses them.
\* ------------------------------------------------------------------------

Call(f, a) ==
    CASE f = "AddFn" -> AddFn[a]
      [] f = "MulFn" -> MulFn[a]
      [] f = "Pack" -> Pack[a]
      [] f = "DivFn" -> DivFn[a]
      [] f = "FromIntFn" -> FromIntFn[a]
      [] f = "SqrtFn" -> SqrtFn[a]
      [] f = "UniformFn" -> UniformFn[a]
      [] f = "NextSeedFn" -> NextSeedFn[a]
      [] f = "LogFn" -> LogFn[a]
      [] f = "ExpFn" -> ExpFn[a]
      [] f = "CosFn" -> CosFn[a]
      [] f = "ToFixed3Fn" -> ToFixed3Fn[a]
      [] f = "DecimalFn" -> DecimalFn[a]
      [] f = "PeriodBody" -> PeriodBody(a[1], a[2], a[3], a[4], a[5])
      [] f = "TrajectoryPoint" -> TrajectoryPoint(a)

\* ------------------------------------------------------------------------
\* Inputs
\* ------------------------------------------------------------------------

\* The parameters and the horizon the application starts with
\* (lines 319-337) and passes to the engine (lines 359, 380).
DefaultCoefficients == [n \in 1..10 |-> One]
DefaultParams ==
    [ambition |-> Half, skill |-> Half, selfRegulation |-> Half,
     dynamism |-> Decimal(2, 10), coefficients |-> DefaultCoefficients]
DefaultFinalTime == 500

\* The horizon MaxHorizon is tried with every parameter set; the horizons
\* -1..MaxHorizon and the horizon 500 with the default parameters.
MaxHorizon == 11

\* Run counts -1..MaxRuns.
MaxRuns == 2

\* The dashboard: the horizon of the runs it starts (500 in the source,
\* lines 359 and 380) is UiFinalTime for Run Once and UiCampaignTime for the
\* runs of a campaign, a campaign is cut to MaxRuns runs, and a session
\* starts at most MaxClicks runs and moves at most MaxMoves controls
\* (sliders, selector, Lock, New).
UiFinalTime == 10
UiCampaignTime == 0
MaxClicks == 2
MaxMoves == 1
DefaultSimulations == 50

\* The run counts the selector offers (lines 538-542), and those that are
\* tried.
SelectorOptions == {10, 25, 50, 100, 200}
SelectorPositions == {10, 50, 200}

\* The positions of the four parameter sliders that are tried (lines
\* 482-488), and the coefficient sliders and their positions that are tried
\* (lines 574-657).
AmbitionPositions == {Zero, Half}
SkillPositions == {Half, Decimal(9, 10)}
SelfRegulationPositions == {Decimal(1, 10), Half}
DynamismPositions == {Decimal(2, 10), Decimal(7, 10)}
CoefficientKeys == {8}
CoefficientPositions == {Zero, One}

\* Coefficient objects: none given, all 1, all 1/2, all 0, effort weight 0,
\* and an effort weight outside [0,1].
ZeroCoefficients == [n \in 1..10 |-> Zero]
ZeroEffortWeight == [n \in {8} |-> Zero]
CoefficientSets ==
    {<<>>, DefaultCoefficients, [n \in 1..10 |-> Half], ZeroCoefficients,
     ZeroEffortWeight, [n \in {8} |-> Neg(One)]}

\* Parameter sets: every ambition with every coefficient object, and the
\* extremes of the other three parameters.
AmbitionSets ==
    [ambition : {Zero, Half, One}, skill : {Half}, selfRegulation : {Half},
     dynamism : {Decimal(2, 10)}, coefficients : {<<>>}]

ParamSets ==
    [ambition : {Zero, Half, One}, skill : {Half}, selfRegulation : {Half},
     dynamism : {Decimal(2, 10)}, coefficients : CoefficientSets]
    \cup [ambition : {Half}, skill : {Zero, One}, selfRegulation : {Zero, One},
          dynamism : {Zero, One}, coefficients : {<<>>}]

\* Seeds: null, 0, the seed of the known point, a negative seed, and a seed
\* whose setback stream draws 0 first (NextSeed(111692635) = 0).
KnownSeed == <<42>>
NegativeSeed == <<-7>>
ZeroDrawSeed == <<111691635>>
Seeds == {Null, <<0>>, KnownSeed, NegativeSeed, ZeroDrawSeed}

\* Values of Math.floor(Math.random() * 1000000).
RandomValues == {42, 123456}

\* The default parameters without self-regulation: the stressors weigh in
\* full on recovery and strain.
UnregulatedParams == [DefaultParams EXCEPT !.selfRegulation = Zero]

\* No ambition in a market without turbulence.
CalmParams == [DefaultParams EXCEPT !.ambition = Zero, !.dynamism = Zero]

\* Calls in which motivation comes near 0 without reaching it, with the
\* parameters UnregulatedParams: it is 1.2971322206345448e-6 at time 4 of
\* the first and 2.220446049250313e-16 (2^-52) at time 5 of the second.
NearZeroCalls ==
    {[params |-> UnregulatedParams, finalTime |-> 10, seed |-> <<595856>>],
     [params |-> UnregulatedParams, finalTime |-> 11, seed |-> <<25738>>]}

\* A call in which motivation is exactly 0 at time 5.
ExactZeroCall ==
    [params |-> UnregulatedParams, finalTime |-> 11, seed |-> <<67852>>]

\* The horizons that are tried with every seed.
ShortHorizons == {0, 5}

\* The calls of runSimulation that are tried.
SimulationCalls ==
    [params : ParamSets, finalTime : {MaxHorizon}, seed : {KnownSeed}]
    \cup [params : {DefaultParams}, finalTime : -1..MaxHorizon, seed : {KnownSeed}]
    \cup [params : AmbitionSets, finalTime : ShortHorizons, seed : Seeds]
    \cup [params : {DefaultParams}, finalTime : {DefaultFinalTime},
          seed : {KnownSeed}]
    \cup [params : {UnregulatedParams}, finalTime : {MaxHorizon},
          seed : {NegativeSeed}]
    \cup NearZeroCalls
    \cup {ExactZeroCall}
    \cup [params : {CalmParams}, finalTime : {MaxHorizon},
          seed : {KnownSeed, ZeroDrawSeed}]

\* The calls of runMultipleSimulations that are tried.
CampaignCalls ==
    [params : AmbitionSets, numRuns : -1..MaxRuns,
     finalTime : {-1, 0, MaxHorizon}]

\* ------------------------------------------------------------------------
\* State
\* ------------------------------------------------------------------------

VARIABLES
    pc,               \* "idle", "loop", "campaign", "returned" or "threw"
    caller,           \* "none", "direct" or "campaign": who called runSimulation
    params,           \* argument params of runSimulation
    finalTime,        \* argument finalTime
    seed,             \* argument seed
    baseSeed,         \* line 57
    usedRandom,       \* whether line 57 called Math.random
    rng,              \* the seeds of the five streams
    time,             \* the loop counter
    motivation,       \* the four stocks
    strain,
    cumulativeEffort,
    progress,
    period,           \* the locals of the last period executed (<<>> before)
    trajectory,       \* the trajectory of the run
    numRuns,          \* argument numRuns of runMultipleSimulations
    i,                \* its loop counter
    results,          \* its results
    calls,            \* number of direct calls made with the same arguments
    firstTrajectory   \* what the first of them returned

\* The state of the dashboard component (lines 319-352).  Its parameter
\* state is the variable params, which it passes to the engine as it is.
VARIABLES
    handler,          \* the event handler being executed, or "none"
    currentSeed,      \* line 348: Null or <<n>>
    lockSeed,         \* line 349
    uiTrajectory,     \* line 338, the state named trajectory: the points shown
    fullTrajectoryRef,\* line 352, fullTrajectoryRef.current
    isRunning,        \* line 339
    currentIndex,     \* line 340
    multiRunResults,  \* line 341
    viewMode,         \* line 342: "single" or "distribution"
    numSimulations,   \* line 345
    clicks,           \* number of runs started from the dashboard so far
    previousRun,      \* history: <<base seed of the last Run Once>> if it ran under
                      \* the lock and no parameter, Lock or New is touched since
    moves             \* number of controls moved so far

uiVars == <<handler, currentSeed, lockSeed, uiTrajectory, fullTrajectoryRef,
            isRunning, currentIndex, multiRunResults, viewMode, numSimulations,
            clicks, previousRun, moves>>

vars == <<pc, caller, params, finalTime, seed, baseSeed, usedRandom, rng, time,
          motivation, strain, cumulativeEffort, progress, period, trajectory,
          numRuns, i, results, calls, firstTrajectory, uiVars>>

engineVars == <<params, finalTime, seed, baseSeed, usedRandom, rng, time,
                motivation, strain, cumulativeEffort, progress, period, trajectory>>

Stocks ==
    [motivation |-> motivation, strain |-> strain,
     cumulativeEffort |-> cumulativeEffort, progress |-> progress]

Init ==
    /\ pc = "idle"
    /\ caller = "none"
    /\ params = DefaultParams
    /\ finalTime = DefaultFinalTime
    /\ seed = Null
    /\ baseSeed = 0
    /\ usedRandom = FALSE
    /\ rng = Streams(0)
    /\ time = 0
    /\ motivation = Zero
    /\ strain = Zero
    /\ cumulativeEffort = Zero
    /\ progress = Zero
    /\ period = <<>>
    /\ trajectory = <<>>
    /\ numRuns = 0
    /\ i = 0
    /\ results = <<>>
    /\ calls = 0
    /\ firstTrajectory = <<>>
    /\ handler = "none"
    /\ currentSeed = Null
    /\ lockSeed = FALSE
    /\ uiTrajectory = <<>>
    /\ fullTrajectoryRef = <<>>
    /\ isRunning = FALSE
    /\ currentIndex = 0
    /\ multiRunResults = <<>>
    /\ viewMode = "single"
    /\ numSimulations = DefaultSimulations
    /\ clicks = 0
    /\ previousRun = <<>>
    /\ moves = 0

\* Entry of runSimulation up to the loop (lines 41-70).
Enter(p, T, s, random) ==
    /\ params' = p
    /\ finalTime' = T
    /\ seed' = s
    /\ baseSeed' = BaseSeed(s, random)
    /\ usedRandom' = Falsy(s)
    /\ rng' = Streams(BaseSeed(s, random))
    /\ motivation' = InitialStocks.motivation
    /\ strain' = InitialStocks.strain
    /\ cumulativeEffort' = InitialStocks.cumulativeEffort
    /\ progress' = InitialStocks.progress
    /\ trajectory' = <<>>
    /\ period' = <<>>
    /\ time' = 0
    /\ pc' = "loop"

\* A first call runSimulation(params, finalTime, seed).
CallRunSimulation ==
    /\ pc = "idle"
    /\ \E c \in SimulationCalls, random \in RandomValues :
           Enter(c.params, c.finalTime, c.seed, random)
    /\ caller' = "direct"
    /\ calls' = 1
    /\ UNCHANGED <<numRuns, i, results, firstTrajectory>>
    /\ UNCHANGED uiVars

\* One iteration of the loop (lines 72-160).
Period ==
    /\ pc = "loop"
    /\ LoopContinues(time, finalTime)
    /\ \E b \in {Call("PeriodBody", <<params, finalTime, time, Stocks, rng>>)} :
           /\ period' = b
           /\ rng' = b.rng
           /\ motivation' = b.after.motivation
           /\ strain' = b.after.strain
           /\ cumulativeEffort' = b.after.cumulativeEffort
           /\ progress' = b.after.progress
           /\ trajectory' = IF Sampled(time)
                            THEN Append(trajectory, Call("TrajectoryPoint", b))
                            ELSE trajectory
    /\ time' = time + 1
    /\ UNCHANGED <<pc, caller, params, finalTime, seed, baseSeed, usedRandom,
                   numRuns, i, results, calls, firstTrajectory>>
    /\ UNCHANGED uiVars

\* The loop is over and runSimulation returns to a direct caller (line 162).
ReturnTrajectory ==
    /\ pc = "loop"
    /\ ~LoopContinues(time, finalTime)
    /\ caller = "direct"
    /\ pc' = "returned"
    /\ UNCHANGED <<caller, engineVars, numRuns, i, results, calls, firstTrajectory>>
    /\ UNCHANGED uiVars

\* The same call once more, with the same arguments, for the calls with a
\* horizon up to MaxHorizon.
CallRunSimulationAgain ==
    /\ pc = "returned"
    /\ caller = "direct"
    /\ calls = 1
    /\ finalTime <= MaxHorizon
    /\ firstTrajectory' = trajectory
    /\ \E random \in RandomValues : Enter(params, finalTime, seed, random)
    /\ calls' = 2
    /\ UNCHANGED <<caller, numRuns, i, results>>
    /\ UNCHANGED uiVars

\* A call runMultipleSimulations(params, numRuns, finalTime) (lines 166-167).
CallRunMultipleSimulations ==
    /\ pc = "idle"
    /\ \E c \in CampaignCalls :
           /\ params' = c.params
           /\ finalTime' = c.finalTime
           /\ numRuns' = c.numRuns
    /\ results' = <<>>
    /\ i' = 0
    /\ caller' = "campaign"
    /\ pc' = "campaign"
    /\ UNCHANGED <<seed, baseSeed, usedRandom, rng, time, motivation, strain,
                   cumulativeEffort, progress, period, trajectory, calls,
                   firstTrajectory>>
    /\ UNCHANGED uiVars

\* A campaign that passes the locked seed of the dashboard to the engine:
\* the variant C11 is tested against.
CampaignRunLocked ==
    /\ pc = "campaign"
    /\ i < numRuns
    /\ \E random \in RandomValues :
           Enter(params, finalTime,
                 IF lockSeed /\ ~Falsy(currentSeed) THEN currentSeed ELSE Null,
                 random)
    /\ UNCHANGED <<caller, numRuns, i, results, calls, firstTrajectory>>
    /\ UNCHANGED uiVars

\* Run i of the campaign starts: runSimulation(params, finalTime) (line 169).
CampaignRun ==
    /\ pc = "campaign"
    /\ i < numRuns
    /\ \E random \in RandomValues : Enter(params, finalTime, Null, random)
    /\ UNCHANGED <<caller, numRuns, i, results, calls, firstTrajectory>>
    /\ UNCHANGED uiVars

\* Run i returns to the campaign, which pushes its summary (lines 170-177);
\* reading a field of the last point of an empty trajectory throws.
CampaignCollect ==
    /\ pc = "loop"
    /\ ~LoopContinues(time, finalTime)
    /\ caller = "campaign"
    /\ IF Len(trajectory) = 0
       THEN /\ pc' = "threw"
            /\ UNCHANGED <<i, results>>
       ELSE /\ results' = Append(results, RunSummary(i, trajectory))
            /\ i' = i + 1
            /\ pc' = "campaign"
    /\ UNCHANGED <<caller, engineVars, numRuns, calls, firstTrajectory>>
    /\ UNCHANGED uiVars

\* The campaign returns its results (line 178).
CampaignReturn ==
    /\ pc = "campaign"
    /\ ~(i < numRuns)
    /\ pc' = "returned"
    /\ UNCHANGED <<caller, engineVars, numRuns, i, results, calls, firstTrajectory>>
    /\ UNCHANGED uiVars

Next ==
    \/ CallRunSimulation
    \/ Period
    \/ ReturnTrajectory
    \/ CallRunSimulationAgain
    \/ CallRunMultipleSimulations
    \/ CampaignRun
    \/ CampaignCollect
    \/ CampaignReturn

Spec == Init /\ [][Next]_vars

\* ------------------------------------------------------------------------
\* The dashboard (lines 317-415 and the controls of lines 482-551)
\* ------------------------------------------------------------------------

\* The arguments and locals of the engine are gone once the handler that
\* called it has returned.
EngineLocalsGone ==
    /\ finalTime' = DefaultFinalTime
    /\ seed' = Null
    /\ baseSeed' = 0
    /\ usedRandom' = FALSE
    /\ rng' = Streams(0)
    /\ time' = 0
    /\ motivation' = Zero
    /\ strain' = Zero
    /\ cumulativeEffort' = Zero
    /\ progress' = Zero
    /\ period' = <<>>
    /\ trajectory' = <<>>

\* No handler is being executed: the component waits for an event.
Waiting == pc = "idle" /\ handler = "none"

\* A control of the parameter panel is used: the parameter state becomes p.
\* cost is what the event takes of the MaxMoves moves of the session.
ParamsBecome(p, cost) ==
    /\ Waiting
    /\ moves + cost <= MaxMoves
    /\ p # params
    /\ params' = p
    /\ previousRun' = <<>>
    /\ moves' = moves + cost
    /\ UNCHANGED <<pc, caller, finalTime, seed, baseSeed, usedRandom, rng, time,
                   motivation, strain, cumulativeEffort, progress, period,
                   trajectory, numRuns, i, results, calls, firstTrajectory,
                   handler, currentSeed, lockSeed, uiTrajectory,
                   fullTrajectoryRef, isRunning, currentIndex, multiRunResults,
                   viewMode, numSimulations, clicks>>

\* The ambition slider (line 482).
SetAmbition ==
    \E a \in AmbitionPositions : ParamsBecome([params EXCEPT !.ambition = a], 1)

\* The skill slider (line 484).
SetSkill ==
    \E a \in SkillPositions : ParamsBecome([params EXCEPT !.skill = a], 1)

\* The self-regulation slider (line 486).
SetSelfRegulation ==
    \E a \in SelfRegulationPositions :
        ParamsBecome([params EXCEPT !.selfRegulation = a], 1)

\* The dynamism slider (line 488).
SetDynamism ==
    \E a \in DynamismPositions : ParamsBecome([params EXCEPT !.dynamism = a], 1)

\* updateCoefficient, a coefficient slider (lines 409-411 and 574-657).
updateCoefficient ==
    \E key \in CoefficientKeys, value \in CoefficientPositions :
        ParamsBecome([params EXCEPT !.coefficients[key] = value], 1)

\* resetCoefficients, the Reset to defaults button (lines 402-407 and 663).
\* It takes none of the moves: it leads back to the initial coefficients.
resetCoefficients ==
    ParamsBecome([params EXCEPT !.coefficients = DefaultCoefficients], 0)

\* The Lock checkbox (line 496).
SetLockSeed ==
    /\ Waiting
    /\ moves < MaxMoves
    /\ lockSeed' = ~lockSeed
    /\ previousRun' = <<>>
    /\ moves' = moves + 1
    /\ UNCHANGED <<pc, caller, engineVars, numRuns, i, results, calls,
                   firstTrajectory, handler, currentSeed, uiTrajectory,
                   fullTrajectoryRef, isRunning, currentIndex, multiRunResults,
                   viewMode, numSimulations, clicks>>

\* generateNewSeed, the New button (lines 413-415 and 505).
generateNewSeed ==
    /\ Waiting
    /\ moves < MaxMoves
    /\ \E random \in RandomValues : currentSeed' = <<random>>
    /\ previousRun' = <<>>
    /\ moves' = moves + 1
    /\ UNCHANGED <<pc, caller, engineVars, numRuns, i, results, calls,
                   firstTrajectory, handler, lockSeed, uiTrajectory,
                   fullTrajectoryRef, isRunning, currentIndex, multiRunResults,
                   viewMode, numSimulations, clicks>>

\* The run-count selector (lines 534-543).
SetNumSimulations ==
    /\ Waiting
    /\ moves < MaxMoves
    /\ \E n \in SelectorPositions :
           /\ n # numSimulations
           /\ numSimulations' = n
    /\ moves' = moves + 1
    /\ UNCHANGED <<pc, caller, engineVars, numRuns, i, results, calls,
                   firstTrajectory, handler, currentSeed, lockSeed, uiTrajectory,
                   fullTrajectoryRef, isRunning, currentIndex, multiRunResults,
                   viewMode, clicks, previousRun>>

\* The seed runAnimatedSimulation passes to the engine (line 356).
RunSeed(random) ==
    IF lockSeed /\ ~Falsy(currentSeed) THEN currentSeed ELSE <<random>>

\* runAnimatedSimulation up to the call of the engine (lines 354-359); the
\* Run Once button is disabled while isRunning (line 518).
runAnimatedSimulation ==
    /\ Waiting
    /\ ~isRunning
    /\ clicks < MaxClicks
    /\ \E random \in RandomValues, engineRandom \in RandomValues :
           /\ currentSeed' = IF lockSeed THEN currentSeed ELSE RunSeed(random)
           /\ Enter(params, UiFinalTime, RunSeed(random), engineRandom)
    /\ caller' = "direct"
    /\ handler' = "runAnimatedSimulation"
    /\ clicks' = clicks + 1
    /\ UNCHANGED <<numRuns, i, results, calls, firstTrajectory, lockSeed,
                   uiTrajectory, fullTrajectoryRef, isRunning, currentIndex,
                   multiRunResults, viewMode, numSimulations, previousRun, moves>>

\* runAnimatedSimulation after the engine has returned (lines 359-363).
StoreTrajectory ==
    /\ pc = "returned"
    /\ handler = "runAnimatedSimulation"
    /\ fullTrajectoryRef' = trajectory
    /\ uiTrajectory' = <<>>
    /\ currentIndex' = 0
    /\ isRunning' = TRUE
    /\ viewMode' = "single"
    /\ pc' = "idle"
    /\ caller' = "none"
    /\ handler' = "none"
    /\ EngineLocalsGone
    /\ previousRun' = IF lockSeed THEN <<baseSeed>> ELSE <<>>
    /\ UNCHANGED <<params, numRuns, i, results, calls, firstTrajectory,
                   currentSeed, lockSeed, multiRunResults, numSimulations, clicks,
                   moves>>

\* The effect ending the animation only once the index is past the last
\* point (> in place of >=): the variant C24 is tested against.
AnimationEndPast ==
    /\ Waiting
    /\ isRunning
    /\ currentIndex > Len(fullTrajectoryRef)
    /\ isRunning' = FALSE
    /\ UNCHANGED <<pc, caller, engineVars, numRuns, i, results, calls,
                   firstTrajectory, handler, currentSeed, lockSeed, uiTrajectory,
                   fullTrajectoryRef, currentIndex, multiRunResults, viewMode,
                   numSimulations, clicks, previousRun, moves>>

\* The timer of the effect fires (lines 367-371): one more point is shown.
TimerTick ==
    /\ Waiting
    /\ isRunning
    /\ currentIndex < Len(fullTrajectoryRef)
    /\ uiTrajectory' = Append(uiTrajectory, fullTrajectoryRef[currentIndex + 1])
    /\ currentIndex' = currentIndex + 1
    /\ UNCHANGED <<pc, caller, engineVars, numRuns, i, results, calls,
                   firstTrajectory, handler, currentSeed, lockSeed,
                   fullTrajectoryRef, isRunning, multiRunResults, viewMode,
                   numSimulations, clicks, previousRun, moves>>

\* The effect finds every point shown and ends the animation (lines 372-373).
AnimationEnd ==
    /\ Waiting
    /\ isRunning
    /\ currentIndex >= Len(fullTrajectoryRef)
    /\ isRunning' = FALSE
    /\ UNCHANGED <<pc, caller, engineVars, numRuns, i, results, calls,
                   firstTrajectory, handler, currentSeed, lockSeed, uiTrajectory,
                   fullTrajectoryRef, currentIndex, multiRunResults, viewMode,
                   numSimulations, clicks, previousRun, moves>>

\* skipToEnd (lines 385-391); the button exists only while isRunning
\* (line 522).
skipToEnd ==
    /\ Waiting
    /\ isRunning
    /\ IF Len(fullTrajectoryRef) > 0
       THEN /\ uiTrajectory' = fullTrajectoryRef
            /\ currentIndex' = Len(fullTrajectoryRef)
            /\ isRunning' = FALSE
       ELSE UNCHANGED <<uiTrajectory, currentIndex, isRunning>>
    /\ UNCHANGED <<pc, caller, engineVars, numRuns, i, results, calls,
                   firstTrajectory, handler, currentSeed, lockSeed,
                   fullTrajectoryRef, multiRunResults, viewMode, numSimulations,
                   clicks, previousRun, moves>>

\* reset (lines 393-400).
reset ==
    /\ Waiting
    /\ uiTrajectory' = <<>>
    /\ currentIndex' = 0
    /\ isRunning' = FALSE
    /\ multiRunResults' = <<>>
    /\ viewMode' = "single"
    /\ currentSeed' = IF lockSeed THEN currentSeed ELSE Null
    /\ UNCHANGED <<pc, caller, engineVars, numRuns, i, results, calls,
                   firstTrajectory, handler, lockSeed, fullTrajectoryRef,
                   numSimulations, clicks, previousRun, moves>>

\* runDistributionAnalysis up to the call of runMultipleSimulations
\* (lines 378-380); the button is disabled while isRunning and when
\* ambition is 0 (line 530).  The campaign of numSimulations runs is cut to
\* MaxRuns runs, as its horizon of 500 periods is cut to UiCampaignTime.
runDistributionAnalysis ==
    /\ Waiting
    /\ ~isRunning
    /\ ~StrictEq(params.ambition, Zero)
    /\ clicks < MaxClicks
    /\ finalTime' = UiCampaignTime
    /\ numRuns' = IF numSimulations > MaxRuns THEN MaxRuns ELSE numSimulations
    /\ results' = <<>>
    /\ i' = 0
    /\ caller' = "campaign"
    /\ pc' = "campaign"
    /\ handler' = "runDistributionAnalysis"
    /\ clicks' = clicks + 1
    /\ UNCHANGED <<params, seed, baseSeed, usedRandom, rng, time, motivation,
                   strain, cumulativeEffort, progress, period, trajectory, calls,
                   firstTrajectory, currentSeed, lockSeed, uiTrajectory,
                   fullTrajectoryRef, isRunning, currentIndex, multiRunResults,
                   viewMode, numSimulations, previousRun, moves>>

\* runDistributionAnalysis after the campaign has returned (lines 381-382).
StoreResults ==
    /\ pc = "returned"
    /\ handler = "runDistributionAnalysis"
    /\ multiRunResults' = results
    /\ viewMode' = "distribution"
    /\ pc' = "idle"
    /\ caller' = "none"
    /\ handler' = "none"
    /\ EngineLocalsGone
    /\ numRuns' = 0
    /\ i' = 0
    /\ results' = <<>>
    /\ UNCHANGED <<params, calls, firstTrajectory,
                   currentSeed, lockSeed, uiTrajectory, fullTrajectoryRef,
                   isRunning, currentIndex, numSimulations, clicks, previousRun, moves>>

\* The dashboard with the engine it calls.
UiNext ==
    \/ SetAmbition
    \/ SetSkill
    \/ SetSelfRegulation
    \/ SetDynamism
    \/ updateCoefficient
    \/ resetCoefficients
    \/ SetLockSeed
    \/ generateNewSeed
    \/ SetNumSimulations
    \/ runAnimatedSimulation
    \/ Period
    \/ ReturnTrajectory
    \/ StoreTrajectory
    \/ TimerTick
    \/ AnimationEnd
    \/ skipToEnd
    \/ reset
    \/ runDistributionAnalysis
    \/ CampaignRun
    \/ CampaignCollect
    \/ CampaignReturn
    \/ StoreResults

UiSpec == Init /\ [][UiNext]_vars

\* The dashboard with its timer: a timeout that stays pending fires
\* (setTimeout of 18 ms, line 371), and the effect that ends the animation
\* runs after the render that made it due (lines 372-373).
PlaybackSpec ==
    UiSpec /\ WF_vars(TimerTick) /\ WF_vars(AnimationEnd)

\* ------------------------------------------------------------------------
\* Properties
\* ------------------------------------------------------------------------

\* x >= 0 as JavaScript decides it: false for NaN.
NonNegative(x) == LessEq(Zero, x)

\* A parameter in [0,1].
InUnit(x) == LessEq(Zero, x) /\ LessEq(x, One)

\* The parameters of the current call are in their domain: ambition, skill,
\* selfRegulation, dynamism and the ten coefficients all in [0,1].
ValidParams ==
    /\ InUnit(params.ambition)
    /\ InUnit(params.skill)
    /\ InUnit(params.selfRegulation)
    /\ InUnit(params.dynamism)
    /\ \A n \in 1..10 : InUnit(Coefficient(params.coefficients, n))

\* runSimulation was called directly and has returned.
Returned == pc = "returned" /\ caller = "direct"

\* The loop of the current run is over.
LoopOver == time > finalTime

\* C1: determinism.  When runSimulation has been called twice with the same
\* params, the same horizon > 0 and the same integer seed, the second
\* trajectory equals the first, point for point and field for field.
C1_Determinism ==
    (Returned /\ calls = 2 /\ seed # Null /\ finalTime > 0)
        => trajectory = firstTrajectory

\* C2: for every integer seed, 0 included, the five streams start at seed,
\* seed+1000, seed+1500, seed+2000 and seed+3000 and no random base seed is
\* generated; one is generated only when the seed is null.
C2_StreamSeeds ==
    (pc = "loop" /\ period = <<>> /\ seed # Null)
        => (rng = Streams(seed[1]) /\ ~usedRandom)

\* C3: non-negativity.  With all parameters in [0,1] and a positive horizon,
\* every recorded point has motivation >= 0, strain >= 0 and
\* performance >= 0, for every seed.
C3_NonNegativity ==
    (ValidParams /\ finalTime > 0)
        => \A k \in 1..Len(trajectory) :
               /\ NonNegative(trajectory[k].motivation)
               /\ NonNegative(trajectory[k].strain)
               /\ NonNegative(trajectory[k].performance)

\* C4: at the end of every period none of the four stocks (motivation,
\* strain, cumulativeEffort, progress) is negative, whatever the parameters.
C4_AllStocksClamped ==
    period # <<>>
        => /\ ~Less(motivation, Zero)
           /\ ~Less(strain, Zero)
           /\ ~Less(cumulativeEffort, Zero)
           /\ ~Less(progress, Zero)

\* C5: zero-ambition degeneracy.  When ambition = 0, every period has
\* challengeStressors = 0, hindranceStressors = 0, strainIncrease = 0 and
\* recovery = 1, for every seed and every value of the other parameters.
C5_ZeroAmbition ==
    (period # <<>> /\ params.ambition = Zero)
        => /\ period.challengeStressors = Zero
           /\ period.hindranceStressors = Zero
           /\ period.strainIncrease = Zero
           /\ period.recovery = One

\* A run with ambition = 0 has gone through several periods, with
\* coefficients other than the defaults.
C5_Witness ==
    /\ period # <<>>
    /\ params.ambition = Zero
    /\ params.coefficients = [n \in 1..10 |-> Half]
    /\ period.time = MaxHorizon
    /\ period.recovery = One

\* C6: sampling cadence.  For every horizon > 0 the periods are executed in
\* order, one by one up to the horizon; a point is recorded exactly for the
\* periods that are multiples of 5, so that the k-th point is that of period
\* 5(k-1); the trajectory returned has floor(horizon/5)+1 points, and with
\* horizon 500 it has 101 points, the last one of period 500.
C6_SamplingCadence ==
    finalTime > 0
        => /\ time <= finalTime + 1
           /\ period # <<>> => period.time = time - 1
           /\ Len(trajectory) = (IF time = 0 THEN 0 ELSE (time - 1) \div 5 + 1)
           /\ \A k \in 1..Len(trajectory) : trajectory[k].period = 5 * (k - 1)
           /\ Returned
                  => /\ LoopOver
                     /\ Len(trajectory) = finalTime \div 5 + 1
           /\ (Returned /\ finalTime = DefaultFinalTime)
                  => /\ Len(trajectory) = 101
                     /\ trajectory[101].period = 500

\* A run of horizon 500 has returned its 101 points.
C6_Witness ==
    /\ Returned
    /\ finalTime = 500
    /\ Len(trajectory) = 101
    /\ trajectory[1].period = 0
    /\ trajectory[101].period = 500

\* The summary s carries the fields of the trajectory point pt.
SummaryOf(s, pt) ==
    /\ DOMAIN s = {"run", "performance", "wellbeing", "finalEffort"}
    /\ s.performance = pt.performance
    /\ s.wellbeing = pt.wellbeing
    /\ s.finalEffort = pt.effort

\* C7: campaign shape.  With numRuns > 0 and horizon > 0, the campaign has
\* one summary per finished run, with run indices 0, 1, ... in order; the
\* summary of a run carries the performance, wellbeing and effort of the last
\* point of that run's trajectory; and numRuns summaries are returned.
C7_CampaignShape ==
    (caller = "campaign" /\ numRuns > 0 /\ finalTime > 0)
        => /\ Len(results) = i
           /\ i <= numRuns
           /\ \A k \in 1..Len(results) : results[k].run = k - 1
           /\ (pc = "campaign" /\ i > 0)
                  => SummaryOf(results[i], trajectory[Len(trajectory)])
           /\ pc # "threw"
           /\ pc = "returned" => Len(results) = numRuns

\* A campaign of MaxRuns runs over the horizon MaxHorizon has returned.
C7_Witness ==
    /\ pc = "returned"
    /\ caller = "campaign"
    /\ numRuns = MaxRuns
    /\ finalTime = MaxHorizon
    /\ Len(results) = MaxRuns
    /\ params.ambition = Half

\* The call of the known point: seed 42, ambition = skill = selfRegulation
\* = 0.5, dynamism = 0.2, default coefficients, horizon 500.
KnownCall ==
    /\ caller = "direct"
    /\ seed = KnownSeed
    /\ params = DefaultParams
    /\ finalTime = DefaultFinalTime

\* C8 (as the code has it): in the run of the known point, the point
\* recorded for period 0 has motivation exactly 0.5 and strain exactly 0: the
\* point holds the stocks after the update of period 0, and motivation has
\* risen by max(challengeStressors, resources) * recovery * var1 = 0.5.
C8_KnownPoint ==
    (KnownCall /\ Len(trajectory) > 0)
        => /\ trajectory[1].period = 0
           /\ trajectory[1].motivation = Half
           /\ trajectory[1].strain = Zero

\* C8 as stated: in the run of the known point, the point recorded for
\* period 0 has motivation exactly 0 and strain exactly 0.
C8_AsStated ==
    (KnownCall /\ Len(trajectory) > 0)
        => /\ trajectory[1].period = 0
           /\ trajectory[1].motivation = Zero
           /\ trajectory[1].strain = Zero

\* The run of the known point has returned, and its first point is that of
\* period 0.
C8_Witness ==
    /\ KnownCall
    /\ Returned
    /\ trajectory[1].period = 0
    /\ trajectory[1].motivation = Half

\* C9 (as the code has it): in every period of every run with var8 >= 0,
\* 0 <= effort <= var8; and, whatever var8 is, effort is exactly 0 when the
\* motivation stock at the start of the period is 0.
C9_EffortBounded ==
    period # <<>>
        => /\ NonNegative(Coefficient(params.coefficients, 8))
                  => /\ NonNegative(period.effort)
                     /\ LessEq(period.effort, Coefficient(params.coefficients, 8))
           /\ StrictEq(period.before.motivation, Zero) => period.effort = Zero

\* C9 as stated: in every period of every run, 0 <= effort <= var8, and
\* effort is exactly 0 when the motivation stock at the start of the period
\* is 0.
C9_AsStated ==
    period # <<>>
        => /\ NonNegative(period.effort)
           /\ LessEq(period.effort, Coefficient(params.coefficients, 8))
           /\ StrictEq(period.before.motivation, Zero) => period.effort = Zero

\* A period whose motivation at the start is positive and below 2^-50 (it
\* is 2^-52), with an effort strictly between 0 and var8 = 1: the test of
\* line 113 is exact.
C9_Witness ==
    /\ period # <<>>
    /\ Coefficient(params.coefficients, 8) = One
    /\ Less(Zero, period.before.motivation)
    /\ Less(period.before.motivation, TwoTo(-50))
    /\ Less(Zero, period.effort)
    /\ Less(period.effort, One)

\* C10: invalid arguments fail fast.  runSimulation called with horizon <= 0,
\* and runMultipleSimulations called with numRuns <= 0 or horizon <= 0, never
\* return normally.
C10_FailFast ==
    (\/ caller = "direct" /\ finalTime <= 0
     \/ caller = "campaign" /\ (numRuns <= 0 \/ finalTime <= 0))
        => pc # "returned"

\* C12: coefficient defaults.  A coefficient that is absent (or whose object
\* is absent) takes the value 1, and a supplied coefficient, 0 included, is
\* used as supplied: every local of a period that has a coefficient in its
\* formula is that formula with the supplied value, or with 1 when none was
\* supplied.
SuppliedOrOne(n) ==
    IF n \in DOMAIN params.coefficients THEN params.coefficients[n] ELSE One

C12_CoefficientDefaults ==
    period # <<>> =>
        /\ period.recovery =
               Recovery(params.ambition, params.selfRegulation,
                        SuppliedOrOne(2), SuppliedOrOne(3),
                        period.challengeStressors, period.hindranceStressors)
        /\ period.motivationIncrease =
               MotivationIncrease(period.challengeStressors, period.resources,
                                  period.recovery, SuppliedOrOne(1))
        /\ period.motivationDecrease =
               MotivationDecrease(period.before.motivation, params.selfRegulation,
                                  period.hindranceStressors, SuppliedOrOne(7))
        /\ period.strainIncrease =
               StrainIncrease(params.ambition, params.selfRegulation,
                              SuppliedOrOne(4), SuppliedOrOne(5),
                              period.challengeStressors, period.hindranceStressors)
        /\ period.strainDecrease =
               StrainDecrease(period.before.strain, period.resources,
                              period.recovery, SuppliedOrOne(6))
        /\ period.effort =
               Effort(period.before.motivation, period.before.strain,
                      SuppliedOrOne(8))
        /\ period.wellbeing =
               Wellbeing(SuppliedOrOne(9), SuppliedOrOne(10),
                         period.after.motivation, period.after.strain)

\* A period with motivation and the effort weight supplied as 0: no effort is
\* made, while the absent well-being weights count as 1.
C12_Witness ==
    /\ period # <<>>
    /\ params.coefficients = ZeroEffortWeight
    /\ Less(Zero, period.before.motivation)
    /\ period.effort = Zero
    /\ Less(Zero, period.after.strain)
    /\ period.wellbeing = Sub(period.after.motivation, period.after.strain)

\* The seeds of the five streams of the current run.
StreamSeeds ==
    {rng.advance, rng.setback, rng.setbackPoisson, rng.challenge, rng.hindrance}

\* C13: range of the generator.  From every seed a stream holds, whether the
\* integer it was constructed with or a seed stored by earlier calls of
\* next(), a call of next() stores an integer seed in [0, 2^31-1] and
\* returns a value in [0,1), never 1; and the seed of a stream that has
\* been advanced is in [0, 2^31-1].
C13_GeneratorRange ==
    pc \in {"loop", "returned"} =>
        /\ \A s \in StreamSeeds :
              /\ next(s).seed \in 0..Mask31
              /\ LessEq(Zero, next(s).value)
              /\ Less(next(s).value, One)
        /\ period # <<>> =>
              \A s \in {rng.advance, rng.setback, rng.setbackPoisson} :
                  s \in 0..Mask31

\* A stream constructed with a negative seed has been advanced through
\* several periods.
C13_Witness ==
    /\ pc = "loop"
    /\ seed = NegativeSeed
    /\ baseSeed < 0
    /\ period # <<>>
    /\ period.time >= 2
    /\ rng.advance \in 0..Mask31
    /\ Less(next(rng.advance).value, One)

\* (s * 1103515245 + 12345) mod 2^31 in exact integer arithmetic, for s in
\* [0, 2^31-1]: the product and the sum are not rounded.
ExactNextSeed[s \in Int] ==
    Low31[NatAdd[NatMul[NatOf[s], NatOf[Multiplier]], NatOf[Increment], 8]]

\* C14: exact recurrence.  For every seed s in [0, 2^31-1] that a stream
\* holds, next() stores exactly (s * 1103515245 + 12345) mod 2^31, the value
\* of the recurrence in exact integer arithmetic.
C14_ExactRecurrence ==
    pc \in {"loop", "returned"} =>
        \A s \in StreamSeeds :
            s \in 0..Mask31 => next(s).seed = ExactNextSeed[s]

\* One period of the loop is executed by the step.
PeriodStep == pc = "loop" /\ time' = time + 1

\* x is in [0, ambition] (false for NaN).
InAmbitionRange(x) == LessEq(Zero, x) /\ LessEq(x, params.ambition)

\* C15: truncated-normal bounds.  With 0 <= ambition and a horizon > 0,
\* each call nextTruncatedNormal(0, ambition, 0, ambition) of a period
\* advances its stream by exactly two calls of next() and returns a value
\* in [0, ambition]: challengeStressors, hindranceStressors, advanceRandom and
\* setbackRandom are in [0, ambition] in every period.
C15_TruncatedNormalBounds ==
    [][(PeriodStep /\ finalTime > 0 /\ NonNegative(params.ambition)) =>
          /\ rng'.advance = NextSeed(NextSeed(rng.advance))
          /\ rng'.setback = NextSeed(NextSeed(rng.setback))
          /\ ~StrictEq(params.ambition, Zero) =>
                /\ rng'.challenge = NextSeed(NextSeed(rng.challenge))
                /\ rng'.hindrance = NextSeed(NextSeed(rng.hindrance))
          /\ InAmbitionRange(period'.challengeStressors)
          /\ InAmbitionRange(period'.hindranceStressors)
          /\ InAmbitionRange(period'.advanceRandom)
          /\ InAmbitionRange(period'.setbackRandom)]_vars

\* C16: Bernoulli setback indicator.  In every period of a run with a
\* horizon > 0, nextPoisson(dynamism, 0, 1) advances its stream by exactly
\* one call of next(), returns 1 when that draw is below dynamism and 0
\* otherwise, and the setback of the period is 0 when the indicator is 0
\* and min(progress, setbackRandom) when it is 1.
C16_BernoulliSetback ==
    [][(PeriodStep /\ finalTime > 0) =>
          /\ rng'.setbackPoisson = NextSeed(rng.setbackPoisson)
          /\ period'.setbackPoisson =
                 IF Less(Uniform(NextSeed(rng.setbackPoisson)), params.dynamism)
                 THEN One ELSE Zero
          /\ period'.setbackPoisson \in {Zero, One}
          /\ period'.setbackPoisson = Zero => StrictEq(period'.setback, Zero)
          /\ period'.setbackPoisson = One =>
                 StrictEq(period'.setback,
                          MathMin(progress, period'.setbackRandom))]_vars

\* C17: stream consumption per period.  Every period advances the advance
\* stream and the setback-magnitude stream by two calls of next() each and
\* the Bernoulli stream by one, whatever skill, dynamism and the stocks;
\* the challenge and hindrance streams advance by two calls each when
\* ambition is not 0 and are left untouched when it is 0.
C17_StreamConsumption ==
    [][PeriodStep =>
          /\ rng'.advance = NextSeed(NextSeed(rng.advance))
          /\ rng'.setback = NextSeed(NextSeed(rng.setback))
          /\ rng'.setbackPoisson = NextSeed(rng.setbackPoisson)
          /\ rng'.challenge = IF StrictEq(params.ambition, Zero) THEN rng.challenge
                              ELSE NextSeed(NextSeed(rng.challenge))
          /\ rng'.hindrance = IF StrictEq(params.ambition, Zero) THEN rng.hindrance
                              ELSE NextSeed(NextSeed(rng.hindrance))]_vars

\* Several periods of a run with ambition 0 have been executed: the
\* stressor streams still hold the seeds they were constructed with, the
\* other three streams have moved.
C17_Witness ==
    /\ pc = "loop"
    /\ period # <<>>
    /\ period.time >= 2
    /\ params.ambition = Zero
    /\ rng.challenge = baseSeed + 2000
    /\ rng.hindrance = baseSeed + 3000
    /\ rng.advance # baseSeed
    /\ rng.setback # baseSeed + 1000
    /\ rng.setbackPoisson # baseSeed + 1500

\* C18: read-before-write.  The flows of a period are computed from the
\* stocks as they stand at the end of the previous period: relative
\* progress, the two decreases, effort and setback are their formulas on
\* the stocks the step starts from.  In period 0 of a run with a horizon
\* > 0, whatever the seed and the parameters, effort, advance and setback
\* are 0 and the recorded cumulativeEffort and performance are 0.
C18_ReadBeforeWrite ==
    [][(PeriodStep /\ finalTime > 0) =>
          /\ period'.before = Stocks
          /\ period'.relativeProgress =
                 RelativeProgress(progress, cumulativeEffort)
          /\ period'.motivationDecrease =
                 MotivationDecrease(motivation, params.selfRegulation,
                                    period'.hindranceStressors, SuppliedOrOne(7))
          /\ period'.strainDecrease =
                 StrainDecrease(strain, period'.resources, period'.recovery,
                                SuppliedOrOne(6))
          /\ period'.effort = Effort(motivation, strain, SuppliedOrOne(8))
          /\ period'.setback =
                 Setback(period'.setbackPoisson, progress, period'.setbackRandom)
          /\ time = 0 =>
                /\ StrictEq(period'.effort, Zero)
                /\ StrictEq(period'.advance, Zero)
                /\ StrictEq(period'.setback, Zero)
                /\ StrictEq(trajectory'[1].cumulativeEffort, Zero)
                /\ StrictEq(trajectory'[1].performance, Zero)]_vars

\* C19: well-being timing.  The well-being of a period is
\* var9 * motivation - var10 * strain on the motivation and strain stocks
\* after the update and the clamp of that period, the values the recorded
\* point shows (there rounded to 3 decimals).
C19_WellbeingTiming ==
    (pc = "loop" /\ period # <<>>) =>
        /\ period.after.motivation = motivation
        /\ period.after.strain = strain
        /\ period.wellbeing =
               Sub(Mul(SuppliedOrOne(9), motivation), Mul(SuppliedOrOne(10), strain))
        /\ Sampled(period.time) =>
               /\ trajectory[Len(trajectory)].period = period.time
               /\ trajectory[Len(trajectory)].motivation = ToFixed3(motivation)
               /\ trajectory[Len(trajectory)].strain = ToFixed3(strain)
               /\ trajectory[Len(trajectory)].wellbeing = ToFixed3(period.wellbeing)

\* A recorded period in which both stocks changed: the well-being computed
\* from the stocks after the update differs from the one the stocks before
\* it would give.
C19_Witness ==
    /\ pc = "loop"
    /\ period # <<>>
    /\ Sampled(period.time)
    /\ period.time >= 5
    /\ period.after.motivation # period.before.motivation
    /\ period.after.strain # period.before.strain
    /\ Less(Zero, period.after.strain)
    /\ period.wellbeing # Wellbeing(SuppliedOrOne(9), SuppliedOrOne(10),
                                    period.before.motivation, period.before.strain)

\* C20: structural non-negativity.  With all parameters and coefficients in
\* [0,1] and a horizon > 0, in every period the decreases do not exceed the
\* stocks they are taken from (motivationDecrease <= motivation,
\* strainDecrease <= strain, setback <= progress, on the stocks the period
\* starts with), motivationIncrease, strainIncrease and advance are >= 0,
\* and the updated motivation, strain and progress are >= 0 before the
\* clamp, which leaves them as they are.
C20_StructuralNonNegativity ==
    (pc = "loop" /\ period # <<>> /\ ValidParams /\ finalTime > 0) =>
        /\ LessEq(period.motivationDecrease, period.before.motivation)
        /\ LessEq(period.strainDecrease, period.before.strain)
        /\ LessEq(period.setback, period.before.progress)
        /\ NonNegative(period.motivationIncrease)
        /\ NonNegative(period.strainIncrease)
        /\ NonNegative(period.advance)
        /\ NonNegative(Sub(Add(period.before.motivation, period.motivationIncrease),
                           period.motivationDecrease))
        /\ NonNegative(Sub(Add(period.before.strain, period.strainIncrease),
                           period.strainDecrease))
        /\ NonNegative(Sub(Add(period.before.progress, period.advance),
                           period.setback))
        /\ period.after.motivation =
               Sub(Add(period.before.motivation, period.motivationIncrease),
                   period.motivationDecrease)
        /\ period.after.strain =
               Sub(Add(period.before.strain, period.strainIncrease),
                   period.strainDecrease)
        /\ period.after.progress =
               Sub(Add(period.before.progress, period.advance), period.setback)

\* The step belongs to the handler runDistributionAnalysis: it starts it,
\* is a step of its campaign, or ends it.
AnalysisStep ==
    handler = "runDistributionAnalysis" \/ handler' = "runDistributionAnalysis"

\* C11: campaign randomness.  Every run of a campaign started from the
\* dashboard enters the engine without a seed and draws its own base seed
\* with Math.random, whether or not a seed is locked; and no step of the
\* campaign changes currentSeed, lockSeed or the single-run trajectory
\* (the points shown and the stored full trajectory).
C11_CampaignRandomness ==
    [][AnalysisStep =>
          /\ UNCHANGED <<currentSeed, lockSeed, uiTrajectory, fullTrajectoryRef>>
          /\ (pc = "campaign" /\ pc' = "loop") =>
                 /\ seed' = Null
                 /\ usedRandom'
                 /\ baseSeed' \in RandomValues
                 /\ rng' = Streams(baseSeed')]_vars

\* The second run of a campaign started with a seed locked and a single run
\* on display: the run is on a base seed other than the locked one.
C11_Witness ==
    /\ handler = "runDistributionAnalysis"
    /\ pc = "loop"
    /\ i = 1
    /\ period # <<>>
    /\ lockSeed
    /\ currentSeed # Null
    /\ Len(uiTrajectory) > 0
    /\ uiTrajectory = fullTrajectoryRef
    /\ baseSeed # currentSeed[1]

\* C21: with ambition in (0,1] and selfRegulation and var2..var5 in [0,1],
\* recovery and strainIncrease are in [0,1] in every period, whatever the
\* other parameters, the seed and the horizon.
C21_RecoveryAndStrainBounds ==
    (/\ pc = "loop"
     /\ period # <<>>
     /\ Less(Zero, params.ambition)
     /\ InUnit(params.ambition)
     /\ InUnit(params.selfRegulation)
     /\ \A n \in 2..5 : InUnit(SuppliedOrOne(n)))
        => /\ InUnit(period.recovery)
           /\ InUnit(period.strainIncrease)

\* A period without self-regulation in which the two stressors are positive
\* and add up to more than ambition: recovery is strictly inside (0,1) and
\* below 1/2, and strain increases by more than 1/2.
C21_Witness ==
    /\ pc = "loop"
    /\ period # <<>>
    /\ params.selfRegulation = Zero
    /\ Less(Zero, period.challengeStressors)
    /\ Less(Zero, period.hindranceStressors)
    /\ Less(params.ambition,
            Add(period.challengeStressors, period.hindranceStressors))
    /\ Less(Zero, period.recovery)
    /\ Less(period.recovery, Half)
    /\ Less(Half, period.strainIncrease)
    /\ Less(period.strainIncrease, One)

\* The point recorded last.
LastPoint == trajectory[Len(trajectory)]

\* C22: zero ambition.  In a run with ambition = 0 and a horizon > 0,
\* whatever the seed, the other parameters and the coefficients, the four
\* stocks are 0 after every period and every recorded point has effort,
\* advance, setback, resources and wellbeing 0.
C22_NeverActivated ==
    (pc = "loop" /\ period # <<>> /\ params.ambition = Zero /\ finalTime > 0) =>
        /\ StrictEq(motivation, Zero)
        /\ StrictEq(strain, Zero)
        /\ StrictEq(cumulativeEffort, Zero)
        /\ StrictEq(progress, Zero)
        /\ Sampled(period.time) =>
              /\ LastPoint.period = period.time
              /\ StrictEq(LastPoint.effort, Zero)
              /\ StrictEq(LastPoint.advance, Zero)
              /\ StrictEq(LastPoint.setback, Zero)
              /\ StrictEq(LastPoint.resources, Zero)
              /\ StrictEq(LastPoint.wellbeing, Zero)

\* C23: no turbulence.  In a run with dynamism = 0, all parameters and
\* coefficients in [0,1] and a horizon > 0, the setback indicator is 0 in
\* every period, the setback is 0, and the progress stock does not decrease
\* from one period to the next.
C23_NoTurbulence ==
    [][(PeriodStep /\ params.dynamism = Zero /\ ValidParams /\ finalTime > 0) =>
          /\ period'.setbackPoisson = Zero
          /\ StrictEq(period'.setback, Zero)
          /\ LessEq(progress, progress')]_vars

\* p is a prefix of f.
IsPrefix(p, f) == Len(p) <= Len(f) /\ p = SubSeq(f, 1, Len(p))

\* The number of points of a run of the dashboard: periods 0, 5, ...
UiPoints == UiFinalTime \div 5 + 1

\* The stored full trajectory is empty or complete; the points shown are a
\* prefix of it, currentIndex is their number, and outside an animation they
\* are none or all of it.
PlaybackInvariant ==
    /\ Len(fullTrajectoryRef) \in {0, UiPoints}
    /\ IsPrefix(uiTrajectory, fullTrajectoryRef)
    /\ currentIndex = Len(uiTrajectory)
    /\ ~isRunning => uiTrajectory \in {<<>>, fullTrajectoryRef}

\* A step that shows one more point shows the next point of the stored
\* trajectory, which it leaves as it is; a step that stores a trajectory
\* stores the whole trajectory of the run that has just returned.
PlaybackStep ==
    /\ (isRunning /\ isRunning' /\ uiTrajectory' # uiTrajectory) =>
          /\ fullTrajectoryRef' = fullTrajectoryRef
          /\ currentIndex' = currentIndex + 1
          /\ uiTrajectory' =
                Append(uiTrajectory, fullTrajectoryRef[currentIndex + 1])
    /\ fullTrajectoryRef' # fullTrajectoryRef =>
          /\ handler = "runAnimatedSimulation"
          /\ fullTrajectoryRef' = trajectory
          /\ ~LoopContinues(time, finalTime)
          /\ uiTrajectory' = <<>>
          /\ isRunning'

\* A step of the timer or of the effect that ends the animation.
OnlyTicks == TimerTick \/ AnimationEnd

\* C24: animated playback.  Run Once stores the whole trajectory at once;
\* at every moment, whatever the interleaving of timer ticks, Skip to End,
\* Reset and the other events, the points shown are a prefix of the stored
\* trajectory, one point longer after each tick, with currentIndex their
\* number; and in every behaviour in which from some moment on only timer
\* ticks occur, eventually the animation is over for good with all the
\* points of the stored trajectory shown (or none, when it was reset).
C24_AnimatedPlayback ==
    /\ []PlaybackInvariant
    /\ [][PlaybackStep]_vars
    /\ (<>[][OnlyTicks]_vars) => <>[](~isRunning /\ currentIndex \in {0, Len(fullTrajectoryRef)})

\* In the middle of an animation: two of the three points are shown.
C24_Witness ==
    /\ Waiting
    /\ isRunning
    /\ Len(fullTrajectoryRef) = UiPoints
    /\ currentIndex = 2
    /\ uiTrajectory = SubSeq(fullTrajectoryRef, 1, 2)
    /\ uiTrajectory # fullTrajectoryRef

\* A Run Once that follows another one, the lock on for both and the
\* parameters, the Lock checkbox and the New button untouched between.
LockedRepeat == runAnimatedSimulation /\ previousRun # <<>>

\* A step of Run Once (from the click to the stored trajectory) or of Reset.
RunOnceOrReset ==
    \/ handler = "runAnimatedSimulation"
    \/ handler' = "runAnimatedSimulation"
    \/ reset

\* C25: seed lock.  While lockSeed is on, a Run Once that follows another
\* Run Once with unchanged parameters uses the same base seed, the
\* trajectory it stores is then the trajectory stored before, and no step
\* of Run Once or of Reset changes currentSeed.
C25_SeedLock ==
    [][/\ LockedRepeat => baseSeed' = previousRun[1]
       /\ (StoreTrajectory /\ previousRun = <<baseSeed>>) =>
              fullTrajectoryRef' = fullTrajectoryRef
       /\ (RunOnceOrReset /\ lockSeed) => currentSeed' = currentSeed]_vars
====
